---- MODULE Spec2Model ----
(***************************************************************************)
(* chaos-mesh-mcp: validators, manifest renderer, creation operations and  *)
(* management operations, as state machines over a Kubernetes cluster.     *)
(*                                                                         *)
(* Encoding of Python values                                               *)
(*   str that is inspected character by character : sequence of one-       *)
(*       character strings, <<"6","0","s">> is "60s"                       *)
(*   str that is only compared or passed on       : a TLA+ string          *)
(*   Optional[T]                                  : None is <<>>, a value  *)
(*       v is <<v>> (Some(v))                                              *)
(*   dict                                         : sequence of <<k, v>>   *)
(*       pairs in insertion order (label maps), or a function with a       *)
(*       string domain (manifests, keyword arguments)                      *)
(*   exception                                    : [exc, what, diag,      *)
(*       checked]: the class, what the message is about, the collaborator  *)
(*       diagnostic it carries, the kinds its message lists                *)
(***************************************************************************)
EXTENDS Integers, Sequences, FiniteSets, TLC

VARIABLES
    pc,            \* pc[p]: where invocation p stands
    op,            \* op[p]: the tool operation invocation p runs
    args,          \* args[p]: its arguments
    local,         \* local[p]: its local variables (name, target_check, found_kind, ...)
    result,        \* result[p]: what the invocation returned or raised
    calls,         \* the collaborator calls issued so far, in order
    pods,          \* cluster: names of the pods matching the label selector
    chaos          \* cluster: chaos[kind] = resources of that kind, by name

vars == <<pc, op, args, local, result, calls, pods, chaos>>

Procs == {1, 2}

(***************************************************************************)
(* Python values                                                           *)
(***************************************************************************)
None == <<>>
Some(v) == <<v>>
IsNone(x) == Len(x) = 0
\* truthiness of an Optional whose value is a str, list or dict
Truthy(x) == Len(x) = 1 /\ Len(x[1]) > 0

Digit == {"0", "1", "2", "3", "4", "5", "6", "7", "8", "9"}
Lower == {"a", "b", "c", "d", "e", "f", "g", "h", "i", "j", "k", "l", "m",
          "n", "o", "p", "q", "r", "s", "t", "u", "v", "w", "x", "y", "z"}

UpperOf == [c \in Lower |->
    CASE c = "a" -> "A" [] c = "b" -> "B" [] c = "c" -> "C" [] c = "d" -> "D"
      [] c = "e" -> "E" [] c = "f" -> "F" [] c = "g" -> "G" [] c = "h" -> "H"
      [] c = "i" -> "I" [] c = "j" -> "J" [] c = "k" -> "K" [] c = "l" -> "L"
      [] c = "m" -> "M" [] c = "n" -> "N" [] c = "o" -> "O" [] c = "p" -> "P"
      [] c = "q" -> "Q" [] c = "r" -> "R" [] c = "s" -> "S" [] c = "t" -> "T"
      [] c = "u" -> "U" [] c = "v" -> "V" [] c = "w" -> "W" [] c = "x" -> "X"
      [] c = "y" -> "Y" [] c = "z" -> "Z"]

\* str.upper()
Upper(s) == [i \in 1..Len(s) |-> IF s[i] \in Lower THEN UpperOf[s[i]] ELSE s[i]]

startswith(s, pre) == Len(s) >= Len(pre) /\ SubSeq(s, 1, Len(pre)) = pre
endswith(s, suf) == Len(s) >= Len(suf) /\ SubSeq(s, Len(s) - Len(suf) + 1, Len(s)) = suf
Contains(s, c) == \E i \in 1..Len(s) : s[i] = c

\* re: '$' matches at the end of the string and just before a newline that ends it
DollarCandidates(s) ==
    {s} \cup (IF Len(s) > 0 /\ s[Len(s)] = "\n" THEN {SubSeq(s, 1, Len(s) - 1)} ELSE {})

\* re: \d+(u1|u2|...) over the whole of t; ignorecase is re.IGNORECASE
DigitsThenUnit(t, units, ignorecase) ==
    \E u \in units :
        /\ Len(t) > Len(u)
        /\ LET tail == SubSeq(t, Len(t) - Len(u) + 1, Len(t))
           IN  (IF ignorecase THEN Upper(tail) = Upper(u) ELSE tail = u)
        /\ \A i \in 1..(Len(t) - Len(u)) : t[i] \in Digit

OK == [exc |-> "", what |-> "", diag |-> "", checked |-> <<>>]
ValidationError(what) == [OK EXCEPT !.exc = "ValidationError", !.what = what]
ValueError(what) == [OK EXCEPT !.exc = "ValueError", !.what = what]
IsError(e) == e.exc # ""

\* the first exception raised by a sequence of checks run in order
RECURSIVE FirstError(_)
FirstError(es) ==
    IF es = <<>> THEN OK
    ELSE IF IsError(Head(es)) THEN Head(es)
    ELSE FirstError(Tail(es))

(***************************************************************************)
(* validators.py                                                           *)
(***************************************************************************)
DurationUnits == {<<"m", "s">>, <<"s">>, <<"m">>, <<"h">>}

validate_duration(duration) ==
    IF \E t \in DollarCandidates(duration) : DigitsThenUnit(t, DurationUnits, FALSE)
    THEN OK
    ELSE ValidationError("duration")

MemoryUnits == {<<"B">>, <<"K", "B">>, <<"M", "B">>, <<"G", "B">>, <<"T", "B">>}

validate_memory_size(size) ==
    IF \E t \in DollarCandidates(size) : DigitsThenUnit(t, MemoryUnits, TRUE)
    THEN OK
    ELSE ValidationError("memory_size")

\* variant of valid_modes: the modes that take no value
modes_without_value == <<"one", "all">>

valid_modes == <<"one", "all", "fixed", "fixed-percent", "random-max-percent">>

Elems(s) == {s[i] : i \in 1..Len(s)}

validate_mode(mode) ==
    IF mode \in Elems(valid_modes) THEN OK ELSE ValidationError("mode")

valid_directions == <<"to", "from", "both">>

validate_direction(direction) ==
    IF direction \in Elems(valid_directions) THEN OK ELSE ValidationError("direction")

BandwidthUnits == {<<"b", "i", "t">>, <<"k", "b", "i", "t">>, <<"m", "b", "i", "t">>,
                   <<"g", "b", "i", "t">>, <<"b", "p", "s">>, <<"k", "b", "p", "s">>,
                   <<"m", "b", "p", "s">>, <<"g", "b", "p", "s">>}

validate_bandwidth(rate) ==
    IF \E t \in DollarCandidates(rate) : DigitsThenUnit(t, BandwidthUnits, TRUE)
    THEN OK
    ELSE ValidationError("bandwidth")

DigitVal == [c \in Digit |->
    CASE c = "0" -> 0 [] c = "1" -> 1 [] c = "2" -> 2 [] c = "3" -> 3 [] c = "4" -> 4
      [] c = "5" -> 5 [] c = "6" -> 6 [] c = "7" -> 7 [] c = "8" -> 8 [] c = "9" -> 9]

RECURSIVE DigitsValue(_)
DigitsValue(ds) ==
    IF ds = <<>> THEN 0
    ELSE 10 * DigitsValue(SubSeq(ds, 1, Len(ds) - 1)) + DigitVal[ds[Len(ds)]]

RECURSIVE Pow10(_)
Pow10(n) == IF n = 0 THEN 1 ELSE 10 * Pow10(n - 1)

SelectSeq2(s, S) == SelectSeq(s, LAMBDA c : c \in S)

\* float(value) for the texts [+-]digits[.digits], nan and inf: [ok] tells
\* whether float() returns (otherwise it raises ValueError); the number is
\* (-1)^neg * mant / 10^scale
ParseFloat(value) ==
    LET signed == Len(value) > 0 /\ value[1] \in {"+", "-"}
        body   == IF signed THEN Tail(value) ELSE value
        neg    == signed /\ value[1] = "-"
        dots   == {i \in 1..Len(body) : body[i] = "."}
        word   == Upper(body)
        bad    == [ok |-> FALSE, nan |-> FALSE, inf |-> FALSE, neg |-> FALSE,
                   mant |-> 0, scale |-> 0]
    IN  IF word = <<"N", "A", "N">>
        THEN [bad EXCEPT !.ok = TRUE, !.nan = TRUE]
        ELSE IF word = <<"I", "N", "F">>
        THEN [bad EXCEPT !.ok = TRUE, !.inf = TRUE, !.neg = neg]
        ELSE IF /\ Cardinality(dots) <= 1
                /\ \A i \in 1..Len(body) : body[i] \in Digit \cup {"."}
                /\ Len(body) > Cardinality(dots)
        THEN LET d == IF dots = {} THEN Len(body) + 1 ELSE CHOOSE i \in dots : TRUE
             IN  [ok |-> TRUE, nan |-> FALSE, inf |-> FALSE, neg |-> neg,
                  mant |-> DigitsValue(SelectSeq2(body, Digit)),
                  scale |-> Len(body) + 1 - d - (IF dots = {} THEN 0 ELSE 1)]
        ELSE bad

\* variant of InPercentRange: 0 < num < 100
InPercentRangeOpen(f) ==
    /\ ~f.nan
    /\ ~f.inf
    /\ ~f.neg
    /\ f.mant > 0
    /\ f.mant < 100 * Pow10(f.scale)

\* 0 <= num <= 100 for num = float(value)
InPercentRange(f) ==
    /\ ~f.nan
    /\ ~f.inf
    /\ ~(f.neg /\ f.mant > 0)
    /\ f.mant <= 100 * Pow10(f.scale)

validate_percentage(value) ==
    LET f == ParseFloat(value)
    IN  IF ~f.ok THEN ValidationError("percentage")
        ELSE IF ~InPercentRange(f) THEN ValidationError("percentage")
        ELSE OK

LowerAlnum == Lower \cup Digit

\* re: [a-z0-9]([-a-z0-9]*[a-z0-9])?(\.[a-z0-9]([-a-z0-9]*[a-z0-9])?)* over
\* the whole of t
LabelKeyMatch(t) ==
    /\ Len(t) > 0
    /\ t[1] \in LowerAlnum
    /\ t[Len(t)] \in LowerAlnum
    /\ \A i \in 1..Len(t) : t[i] \in LowerAlnum \cup {"-", "."}
    /\ \A i \in 1..Len(t) :
          t[i] = "." => /\ 1 < i /\ i < Len(t)
                        /\ t[i - 1] \in LowerAlnum
                        /\ t[i + 1] \in LowerAlnum

validate_labels(labels) ==
    IF Len(labels) = 0 THEN ValidationError("labels")
    ELSE IF \E i \in 1..Len(labels) :
                ~\E t \in DollarCandidates(labels[i][1]) : LabelKeyMatch(t)
    THEN ValidationError("labels")
    ELSE OK

\* str(n) for an int n
RECURSIVE NatStr(_)
NatStr(n) ==
    IF n < 10 THEN <<CHOOSE c \in Digit : DigitVal[c] = n>>
    ELSE Append(NatStr(n \div 10), CHOOSE c \in Digit : DigitVal[c] = n % 10)

IntStr(n) == IF n < 0 THEN <<"-">> \o NatStr(-n) ELSE NatStr(n)

(***************************************************************************)
(* templates.py: the manifest renderer.  A manifest is the document that   *)
(* yaml.dump serializes: [apiVersion, kind, metadata, spec], spec a        *)
(* function from its keys to their values.                                 *)
(***************************************************************************)
EmptyDict == <<>>
Put(d, k, v) == (k :> v) @@ d
PutIf(c, d, k, v) == IF c THEN Put(d, k, v) ELSE d
Get(d, k, default) == IF k \in DOMAIN d THEN d[k] ELSE default

Skeleton(kind, name, namespace, spec) ==
    [apiVersion |-> "chaos-mesh.org/v1alpha1",
     kind       |-> kind,
     metadata   |-> [name |-> name, namespace |-> namespace],
     spec       |-> spec]

\* variant of PodSelector: the selector names no namespace
PodSelectorAnywhere(namespace, target_labels) ==
    [namespaces |-> <<>>, labelSelectors |-> target_labels]

PodSelector(namespace, target_labels) ==
    [namespaces |-> <<namespace>>, labelSelectors |-> target_labels]

render_network_chaos(name, namespace, action, target_labels, duration, mode, action_params) ==
    LET s0 == [action   |-> action,
               mode     |-> mode,
               selector |-> PodSelector(namespace, target_labels),
               duration |-> duration]
        s1 == CASE action = "delay" ->
                     Put(s0, "delay",
                         [latency     |-> Get(action_params, "latency", <<"1", "0", "m", "s">>),
                          jitter      |-> Get(action_params, "jitter", <<"0", "m", "s">>),
                          correlation |-> Get(action_params, "correlation", <<"0">>)])
                [] action = "loss" ->
                     Put(s0, "loss",
                         [loss        |-> Get(action_params, "loss", <<"5", "0">>),
                          correlation |-> Get(action_params, "correlation", <<"0">>)])
                [] action = "corrupt" ->
                     Put(s0, "corrupt",
                         [corrupt     |-> Get(action_params, "corrupt", <<"5", "0">>),
                          correlation |-> Get(action_params, "correlation", <<"0">>)])
                [] action = "partition" ->
                     LET d == PutIf("direction" \in DOMAIN action_params, s0,
                                    "direction", Get(action_params, "direction", ""))
                     IN  PutIf("target" \in DOMAIN action_params, d,
                               "target", Get(action_params, "target", ""))
                [] OTHER -> s0
        s2 == PutIf("direction" \in DOMAIN action_params /\ action # "partition", s1,
                    "direction", Get(action_params, "direction", ""))
        s3 == PutIf("external_targets" \in DOMAIN action_params, s2,
                    "externalTargets", Get(action_params, "external_targets", None))
    IN  Skeleton("NetworkChaos", name, namespace, s3)

render_stress_chaos(name, namespace, target_labels, duration, mode, cpu_workers, cpu_load, memory_workers, memory_size) ==
    LET cpu == PutIf(~IsNone(cpu_load), [workers |-> Get(cpu_workers, 1, 0)],
                     "load", Get(cpu_load, 1, 0))
        m1  == PutIf(~IsNone(memory_workers) /\ Get(memory_workers, 1, 0) # 0, EmptyDict,
                     "workers", Get(memory_workers, 1, 0))
        mem == PutIf(Truthy(memory_size), m1, "size", Get(memory_size, 1, <<>>))
        st1 == PutIf(~IsNone(cpu_workers), EmptyDict, "cpu", cpu)
        st2 == PutIf(~IsNone(memory_workers) \/ ~IsNone(memory_size), st1, "memory", mem)
    IN  Skeleton("StressChaos", name, namespace,
                 [mode      |-> mode,
                  selector  |-> PodSelector(namespace, target_labels),
                  duration  |-> duration,
                  stressors |-> st2])

render_pod_chaos(name, namespace, action, target_labels, duration, mode, container_names, grace_period) ==
    LET s0 == [action   |-> action,
               mode     |-> mode,
               selector |-> PodSelector(namespace, target_labels),
               duration |-> duration]
        s1 == PutIf(action = "container-kill" /\ Truthy(container_names), s0,
                    "containerNames", Get(container_names, 1, <<>>))
        s2 == PutIf(action = "pod-kill" /\ ~IsNone(grace_period), s1,
                    "gracePeriod", Get(grace_period, 1, 0))
    IN  Skeleton("PodChaos", name, namespace, s2)

render_io_chaos(name, namespace, action, target_labels, duration, volume_path, path, percent, mode, action_params) ==
    LET s0 == [action     |-> action,
               mode       |-> mode,
               selector   |-> PodSelector(namespace, target_labels),
               duration   |-> duration,
               volumePath |-> volume_path,
               path       |-> path,
               percent    |-> percent]
        s1 == PutIf("methods" \in DOMAIN action_params
                        /\ Truthy(Get(action_params, "methods", None)),
                    s0, "methods", Get(Get(action_params, "methods", None), 1, <<>>))
        attr == Get(action_params, "attr", EmptyDict)
        mk1 == PutIf("filling" \in DOMAIN action_params, EmptyDict,
                     "filling", Get(action_params, "filling", ""))
        mk2 == PutIf("max_occurrences" \in DOMAIN action_params, mk1,
                     "maxOccurrences", Get(action_params, "max_occurrences", 0))
        mk3 == PutIf("max_length" \in DOMAIN action_params, mk2,
                     "maxLength", Get(action_params, "max_length", 0))
        s2 == CASE action = "latency" ->
                     Put(s1, "delay", Get(action_params, "delay", <<"1", "0", "m", "s">>))
                [] action = "fault" ->
                     Put(s1, "errno", Get(action_params, "errno", 5))
                [] action = "attrOverride" ->
                     PutIf(DOMAIN attr # {}, s1, "attr", attr)
                [] action = "mistake" ->
                     PutIf(DOMAIN mk3 # {}, s1, "mistake", mk3)
                [] OTHER -> s1
    IN  Skeleton("IOChaos", name, namespace, s2)

render_http_chaos(name, namespace, target_labels, duration, port, target, mode, method, path, request_headers, action_params) ==
    LET s0 == [mode     |-> mode,
               selector |-> PodSelector(namespace, target_labels),
               duration |-> duration,
               port     |-> port,
               target   |-> target]
        s1 == PutIf(Truthy(method), s0, "method", Upper(Get(method, 1, <<>>)))
        s2 == PutIf(Truthy(path), s1, "path", Get(path, 1, <<>>))
        s3 == PutIf(Truthy(request_headers), s2,
                    "request_headers", Get(request_headers, 1, <<>>))
        s4 == PutIf("abort" \in DOMAIN action_params /\ Get(action_params, "abort", FALSE),
                    s3, "abort", TRUE)
        s5 == PutIf("delay" \in DOMAIN action_params
                        /\ Len(Get(action_params, "delay", <<>>)) > 0,
                    s4, "delay", Get(action_params, "delay", <<>>))
        rh == Get(action_params, "replace_headers", None)
        rb == Get(action_params, "replace_body", None)
        r1 == PutIf(Truthy(rh), EmptyDict, "headers", Get(rh, 1, <<>>))
        r2 == PutIf(Truthy(rb), r1, "body", Get(rb, 1, <<>>))
        s6 == PutIf(("replace_headers" \in DOMAIN action_params
                         \/ "replace_body" \in DOMAIN action_params) /\ DOMAIN r2 # {},
                    s5, "replace", r2)
        ph == Get(action_params, "patch_headers", None)
        pb == Get(action_params, "patch_body_value", None)
        p1 == PutIf(Truthy(ph), EmptyDict, "headers", Get(ph, 1, <<>>))
        p2 == PutIf(Truthy(pb), p1, "body", [value |-> Get(pb, 1, <<>>)])
        s7 == PutIf(("patch_headers" \in DOMAIN action_params
                         \/ "patch_body_value" \in DOMAIN action_params) /\ DOMAIN p2 # {},
                    s6, "patch", p2)
    IN  Skeleton("HTTPChaos", name, namespace, s7)

render_dns_chaos(name, namespace, action, target_labels, duration, mode, patterns) ==
    LET s0 == [action   |-> action,
               mode     |-> mode,
               selector |-> PodSelector(namespace, target_labels),
               duration |-> duration]
    IN  Skeleton("DNSChaos", name, namespace,
                 PutIf(Truthy(patterns), s0, "patterns", Get(patterns, 1, <<>>)))

\* ",".join(items)
RECURSIVE CommaJoin(_)
CommaJoin(items) ==
    IF Len(items) = 0 THEN ""
    ELSE IF Len(items) = 1 THEN items[1]
    ELSE items[1] \o "," \o CommaJoin(Tail(items))

render_physical_chaos(name, namespace, action, duration, mode, address, selector, action_params) ==
    LET s0 == [action |-> action, mode |-> mode, duration |-> duration]
        s1 == IF Truthy(address) THEN Put(s0, "address", Get(address, 1, <<>>))
              ELSE IF Truthy(selector)
              THEN Put(s0, "selector", [labelSelectors |-> Get(selector, 1, <<>>)])
              ELSE s0
        cpu == PutIf("load" \in DOMAIN action_params,
                     [workers |-> Get(action_params, "workers", 1)],
                     "load", Get(action_params, "load", 0))
        mem == PutIf("size" \in DOMAIN action_params, EmptyDict,
                     "size", Get(action_params, "size", <<>>))
        clk == PutIf("clock_ids" \in DOMAIN action_params,
                     ("time-offset" :> Get(action_params, "time_offset", <<>>))
                         @@ ("pid" :> Get(action_params, "pid", 0)),
                     "clock-ids-slice", CommaJoin(Get(action_params, "clock_ids", <<>>)))
        s2 == CASE action = "stress-cpu" -> Put(s1, "stress-cpu", cpu)
                [] action = "stress-mem" -> Put(s1, "stress-mem", mem)
                [] action = "disk-fill" ->
                     Put(s1, "disk-fill",
                         ("path" :> Get(action_params, "path", <<>>))
                             @@ ("size" :> Get(action_params, "size", <<>>))
                             @@ ("fill-by-fallocate" :>
                                     Get(action_params, "fill_by_fallocate", TRUE)))
                [] action = "process" ->
                     Put(s1, "process",
                         [process |-> Get(action_params, "process", ""),
                          signal  |-> Get(action_params, "signal", 9)])
                [] action = "clock" -> Put(s1, "clock", clk)
                [] OTHER -> s1
    IN  Skeleton("PhysicalMachineChaos", name, namespace, s2)

(***************************************************************************)
(* kubectl.py over the cluster.  A kubectl command exits non-zero either   *)
(* because of the cluster's state (the resource is absent) or because the  *)
(* command itself fails (outcome "fail"); its stderr is the diagnostic.    *)
(***************************************************************************)
\* variant of CHAOS_KINDS: the same kinds in alphabetical order
KindsByName == <<"DNSChaos", "HTTPChaos", "IOChaos", "KernelChaos", "NetworkChaos",
                 "PhysicalMachineChaos", "PodChaos", "StressChaos", "TimeChaos">>

CHAOS_KINDS == <<"NetworkChaos", "StressChaos", "PodChaos", "IOChaos", "HTTPChaos",
                 "DNSChaos", "PhysicalMachineChaos", "TimeChaos", "KernelChaos">>

Outcomes == {"ok", "fail"}
Stderr == "stderr"

\* at most MaxFailures commands of one invocation fail on their own
MaxFailures == 1

KubectlError(what, diag) == [OK EXCEPT !.exc = "KubectlError", !.what = what, !.diag = diag]
RuntimeError(what, diag) == [OK EXCEPT !.exc = "RuntimeError", !.what = what, !.diag = diag]

Call(p, call, target, ok) ==
    [proc |-> p, call |-> call, target |-> target, ok |-> ok,
     diag |-> IF ok THEN "" ELSE Stderr]

Failures(p) ==
    Cardinality({i \in DOMAIN calls :
                    calls[i].proc = p /\ calls[i].call # "get" /\ ~calls[i].ok})

OutcomesLeft(p) == IF Failures(p) < MaxFailures THEN Outcomes ELSE {"ok"}

\* variant of list_resources: the items are listed though the command fails
list_resources_despite_failure(items, outcome) == items

\* list_resources: the items listed, [] when the command fails
list_resources(items, outcome) == IF outcome = "ok" THEN items ELSE <<>>

get_pods(podnames, outcome) ==
    list_resources([i \in 1..Len(podnames) |->
                       [metadata |-> [name |-> podnames[i]],
                        status   |-> [phase |-> "Running"]]], outcome)

check_target_exists(podnames, outcome) ==
    LET found == get_pods(podnames, outcome)
    IN  [exists |-> Len(found) > 0,
         count  |-> Len(found),
         pods   |-> [i \in 1..Len(found) |->
                        [name |-> found[i].metadata.name, status |-> found[i].status.phase]]]

\* apply_yaml: the returned dict, or the KubectlError raised
apply_yaml(outcome) ==
    IF outcome = "ok"
    THEN [err |-> OK, value |-> [status |-> "applied", output |-> "configured"]]
    ELSE [err |-> KubectlError("apply", Stderr), value |-> EmptyDict]

Holds(kind, name) == name \in DOMAIN chaos[kind]

\* variant of get_resource: every get-by-name succeeds
get_resource_always(kind, name) ==
    [err |-> OK, value |-> [spec |-> EmptyDict, status |-> EmptyDict]]

\* get_resource: succeeds when the cluster holds the resource
get_resource(kind, name) ==
    IF Holds(kind, name)
    THEN [err |-> OK, value |-> chaos[kind][name]]
    ELSE [err |-> KubectlError("get", ""), value |-> EmptyDict]

\* uuid.uuid4().hex[:8]
HexSuffixes == {"a3f4b2c1", "0badc0de"}

generate_name(prefix, hex8) == prefix \o "-" \o hex8

(***************************************************************************)
(* Invocations                                                             *)
(***************************************************************************)
NoLocal == [name |-> "", target_check |-> EmptyDict, manifest |-> EmptyDict,
            idx |-> 1, found_kind |-> "", experiments |-> <<>>]
NoResult == [status |-> "none", err |-> OK, value |-> EmptyDict]
Raised(e) == [status |-> "raised", err |-> e, value |-> EmptyDict]
Returned(v) == [status |-> "returned", err |-> OK, value |-> v]

\* variant of AffectedPods: the pods are listed again after the apply
AffectedPodsListedAgain(target_check) == pods

AffectedPods(target_check) ==
    [i \in 1..Len(target_check.pods) |-> target_check.pods[i].name]

(***************************************************************************)
(* The steps of a creation operation.  An operation runs from its call to  *)
(* its first collaborator call, and from one collaborator call to the      *)
(* next, in one step each.                                                 *)
(***************************************************************************)
\* variant of Begin: the target is looked up before the arguments are validated
BeginLooksUpFirst(p, o, a, next, e) ==
    /\ pc[p] = "idle"
    /\ op' = [op EXCEPT ![p] = o]
    /\ args' = [args EXCEPT ![p] = a]
    /\ calls' = Append(calls, Call(p, "list_pods", <<>>, TRUE))
    /\ IF IsError(e)
       THEN /\ pc' = [pc EXCEPT ![p] = "done"]
            /\ result' = [result EXCEPT ![p] = Raised(e)]
       ELSE /\ pc' = [pc EXCEPT ![p] = next]
            /\ UNCHANGED result
    /\ UNCHANGED <<local, pods, chaos>>

\* the call with arguments a, up to the end of the validation, whose first
\* error is e
Begin(p, o, a, next, e) ==
    /\ pc[p] = "idle"
    /\ op' = [op EXCEPT ![p] = o]
    /\ args' = [args EXCEPT ![p] = a]
    /\ IF IsError(e)
       THEN /\ pc' = [pc EXCEPT ![p] = "done"]
            /\ result' = [result EXCEPT ![p] = Raised(e)]
       ELSE /\ pc' = [pc EXCEPT ![p] = next]
            /\ UNCHANGED result
    /\ UNCHANGED <<local, calls, pods, chaos>>

\* variant of CheckTarget: the manifest is applied whatever the check found
CheckTargetIgnored(p, name, manifest) ==
    /\ pc[p] = "check_target"
    /\ \E outcome \in OutcomesLeft(p) :
          /\ calls' = Append(calls, Call(p, "list_pods", args[p].target_labels,
                                         outcome = "ok"))
          /\ local' = [local EXCEPT ![p].target_check = check_target_exists(pods, outcome),
                                    ![p].name = name,
                                    ![p].manifest = manifest]
    /\ pc' = [pc EXCEPT ![p] = "apply"]
    /\ UNCHANGED <<op, args, result, pods, chaos>>

\* check_target_exists(namespace, target_labels), then the name and the manifest
CheckTarget(p, name, manifest) ==
    /\ pc[p] = "check_target"
    /\ \E outcome \in OutcomesLeft(p) :
          LET target_check == check_target_exists(pods, outcome)
          IN  /\ calls' = Append(calls, Call(p, "list_pods", args[p].target_labels,
                                             outcome = "ok"))
              /\ IF ~target_check.exists
                 THEN /\ pc' = [pc EXCEPT ![p] = "done"]
                      /\ result' = [result EXCEPT ![p] = Raised(ValueError("no_pods"))]
                      /\ local' = [local EXCEPT ![p].target_check = target_check]
                 ELSE /\ local' = [local EXCEPT ![p].target_check = target_check,
                                                ![p].name = name,
                                                ![p].manifest = manifest]
                      /\ pc' = [pc EXCEPT ![p] = "apply"]
                      /\ UNCHANGED result
    /\ UNCHANGED <<op, args, pods, chaos>>

\* the name and the manifest of a machine-targeted operation
Render(p, name, manifest) ==
    /\ pc[p] = "render"
    /\ local' = [local EXCEPT ![p].name = name, ![p].manifest = manifest]
    /\ pc' = [pc EXCEPT ![p] = "apply"]
    /\ UNCHANGED <<op, args, result, calls, pods, chaos>>

\* the resource the cluster holds once a manifest is applied
NewResource(manifest) == [paused |-> FALSE, spec |-> manifest.spec, status |-> EmptyDict]

\* variant of Apply: a name the cluster holds already is not submitted
ApplyUnlessHeld(p, value) ==
    /\ pc[p] = "apply"
    /\ \E outcome \in OutcomesLeft(p) :
          LET applied == apply_yaml(outcome)
              manifest == local[p].manifest
          IN  IF Holds(manifest.kind, manifest.metadata.name)
              THEN /\ result' = [result EXCEPT ![p] = Raised(ValueError("exists"))]
                   /\ UNCHANGED <<calls, chaos>>
              ELSE /\ calls' = Append(calls, Call(p, "apply", manifest, outcome = "ok"))
                   /\ IF IsError(applied.err)
                      THEN /\ result' = [result EXCEPT ![p] = Raised(applied.err)]
                           /\ UNCHANGED chaos
                      ELSE /\ result' = [result EXCEPT ![p] = Returned(value)]
                           /\ chaos' = [chaos EXCEPT ![manifest.kind] =
                                 Put(@, manifest.metadata.name, NewResource(manifest))]
    /\ pc' = [pc EXCEPT ![p] = "done"]
    /\ UNCHANGED <<op, args, local, pods>>

\* variant of Apply: the manifest is kept in one place for all invocations,
\* and what is submitted is another invocation's when it has rendered one
ApplySharedManifest(p, value) ==
    /\ pc[p] = "apply"
    /\ \E outcome \in OutcomesLeft(p) :
          LET applied == apply_yaml(outcome)
              others == {q \in Procs \ {p} : local[q].manifest # EmptyDict}
              manifest == IF others = {} THEN local[p].manifest
                          ELSE local[CHOOSE q \in others : TRUE].manifest
          IN  /\ calls' = Append(calls, Call(p, "apply", manifest, outcome = "ok"))
              /\ IF IsError(applied.err)
                 THEN /\ result' = [result EXCEPT ![p] = Raised(applied.err)]
                      /\ UNCHANGED chaos
                 ELSE /\ result' = [result EXCEPT ![p] = Returned(value)]
                      /\ chaos' = [chaos EXCEPT ![manifest.kind] =
                            Put(@, manifest.metadata.name, NewResource(manifest))]
    /\ pc' = [pc EXCEPT ![p] = "done"]
    /\ UNCHANGED <<op, args, local, pods>>

\* apply_yaml(yaml_content), then the return of value
Apply(p, value) ==
    /\ pc[p] = "apply"
    /\ \E outcome \in OutcomesLeft(p) :
          LET applied == apply_yaml(outcome)
              manifest == local[p].manifest
          IN  /\ calls' = Append(calls, Call(p, "apply", manifest, outcome = "ok"))
              /\ IF IsError(applied.err)
                 THEN /\ result' = [result EXCEPT ![p] = Raised(applied.err)]
                      /\ UNCHANGED chaos
                 ELSE /\ result' = [result EXCEPT ![p] = Returned(value)]
                      /\ chaos' = [chaos EXCEPT ![manifest.kind] =
                            Put(@, manifest.metadata.name, NewResource(manifest))]
    /\ pc' = [pc EXCEPT ![p] = "done"]
    /\ UNCHANGED <<op, args, local, pods>>

(***************************************************************************)
(* Argument samples: for each field a well-formed value, then values the   *)
(* validation rejects or treats differently.  An operation is called with  *)
(* the first sample of every field, but for at most MaxDeviations fields.  *)
(***************************************************************************)
MaxDeviations == 2

RECURSIVE Deviating(_, _)
Deviating(samples, k) ==
    IF k = 0 THEN {[f \in DOMAIN samples |-> samples[f][1]]}
    ELSE LET fewer == Deviating(samples, k - 1)
         IN  fewer \cup UNION {{[a EXCEPT ![f] = samples[f][i]] :
                                    i \in 1..Len(samples[f])} :
                                a \in fewer, f \in DOMAIN samples}

Near(samples) == Deviating(samples, MaxDeviations)

Namespaces == <<"default">>
LabelsApp == << << <<"a", "p", "p">>, "mongodb" >> >>
LabelSamples == <<LabelsApp, <<>>, << << <<"A", "p", "p">>, "mongodb" >> >>>>
DurationSamples == <<<<"6", "0", "s">>, <<"6", "0">>>>
LatencySamples == <<<<"8", "0", "0", "m", "s">>, <<"1", ".", "5", "s">>>>
PercentSamples == <<<<"5", "0">>, <<"1", "0", "1">>>>
ModeSamples == <<"all", "one", "every">>
LabelFew == <<LabelsApp, <<>>>>
ModeFew == <<"all", "every">>
DirectionSamples == <<"to", "sideways">>
ExternalTargetSamples == <<None, Some(<<"1.1.1.1">>)>>

(***************************************************************************)
(* tools/network.py                                                        *)
(***************************************************************************)
\* the parameters of a call: the arguments, and its default for a parameter
\* the arguments omit; supplied names the arguments given
Bind(defaults, arguments, omitted) ==
    [f \in DOMAIN arguments \cup {"supplied"} |->
        IF f = "supplied" THEN DOMAIN arguments \ omitted
        ELSE IF f \in omitted THEN defaults[f]
        ELSE arguments[f]]

create_network_delay_defaults ==
    [jitter |-> <<"0", "m", "s">>, correlation |-> <<"0">>, mode |-> "all",
     direction |-> "to", external_targets |-> None]

create_network_delay_samples ==
    [namespace |-> Namespaces, target_labels |-> LabelFew, latency |-> LatencySamples,
     duration |-> DurationSamples, jitter |-> <<<<"0", "m", "s">>, <<"m", "s">>>>,
     correlation |-> PercentSamples, mode |-> ModeFew, direction |-> DirectionSamples,
     external_targets |-> ExternalTargetSamples]

\* create_network_delay called with arguments of the set given
create_network_delay_with(p, given) ==
    \/ \E arguments \in given,
          omitted \in {{}, {"direction"}, DOMAIN create_network_delay_defaults} :
          LET a == Bind(create_network_delay_defaults, arguments, omitted)
          IN
          Begin(p, "create_network_delay", a, "check_target",
              FirstError(<<validate_labels(a.target_labels), validate_duration(a.latency),
                           validate_duration(a.duration), validate_duration(a.jitter),
                           validate_percentage(a.correlation), validate_mode(a.mode),
                           validate_direction(a.direction)>>))
    \/ /\ op[p] = "create_network_delay"
       /\ \E hex8 \in HexSuffixes :
             LET a == args[p]
                 name == generate_name("network-delay", hex8)
             IN  CheckTarget(p, name,
                     render_network_chaos(name, a.namespace, "delay", a.target_labels, a.duration, a.mode,
                         [latency |-> a.latency, jitter |-> a.jitter, correlation |-> a.correlation,
                          direction |-> a.direction, external_targets |-> a.external_targets]))
    \/ /\ op[p] = "create_network_delay"
       /\ LET a == args[p]
              name == local[p].name
              target_check == local[p].target_check
          IN  Apply(p,
                  [experiment_id |-> name, kind |-> "NetworkChaos", action |-> "delay",
                   namespace |-> a.namespace, affected_pods |-> AffectedPods(target_check),
                   parameters |-> [latency |-> a.latency, jitter |-> a.jitter,
                                   correlation |-> a.correlation, direction |-> a.direction],
                   duration |-> a.duration])

create_network_delay(p) ==
    create_network_delay_with(p, Near(create_network_delay_samples))

create_network_loss(p) ==
    \/ \E a \in
              Near([namespace |-> Namespaces, target_labels |-> LabelFew, loss |-> PercentSamples,
               duration |-> DurationSamples, correlation |-> PercentSamples, mode |-> ModeFew,
               direction |-> DirectionSamples]) :
          Begin(p, "create_network_loss", a, "check_target",
              FirstError(<<validate_labels(a.target_labels), validate_percentage(a.loss),
                           validate_duration(a.duration), validate_percentage(a.correlation),
                           validate_mode(a.mode), validate_direction(a.direction)>>))
    \/ /\ op[p] = "create_network_loss"
       /\ \E hex8 \in HexSuffixes :
             LET a == args[p]
                 name == generate_name("network-loss", hex8)
             IN  CheckTarget(p, name,
                     render_network_chaos(name, a.namespace, "loss", a.target_labels, a.duration, a.mode,
                         [loss |-> a.loss, correlation |-> a.correlation, direction |-> a.direction]))
    \/ /\ op[p] = "create_network_loss"
       /\ LET a == args[p]
              name == local[p].name
              target_check == local[p].target_check
          IN  Apply(p,
                  [experiment_id |-> name, kind |-> "NetworkChaos", action |-> "loss",
                   namespace |-> a.namespace, affected_pods |-> AffectedPods(target_check),
                   parameters |-> [loss |-> a.loss \o <<"%">>, correlation |-> a.correlation,
                                   direction |-> a.direction],
                   duration |-> a.duration])

create_network_partition(p) ==
    \/ \E a \in
              Near([namespace |-> Namespaces, target_labels |-> LabelFew, duration |-> DurationSamples,
               direction |-> <<"both", "sideways">>, mode |-> ModeFew,
               external_targets |-> ExternalTargetSamples]) :
          Begin(p, "create_network_partition", a, "check_target",
              FirstError(<<validate_labels(a.target_labels), validate_duration(a.duration),
                           validate_direction(a.direction), validate_mode(a.mode)>>))
    \/ /\ op[p] = "create_network_partition"
       /\ \E hex8 \in HexSuffixes :
             LET a == args[p]
                 name == generate_name("network-partition", hex8)
             IN  CheckTarget(p, name,
                     render_network_chaos(name, a.namespace, "partition", a.target_labels, a.duration, a.mode,
                         [direction |-> a.direction, external_targets |-> a.external_targets]))
    \/ /\ op[p] = "create_network_partition"
       /\ LET a == args[p]
              name == local[p].name
              target_check == local[p].target_check
          IN  Apply(p,
                  [experiment_id |-> name, kind |-> "NetworkChaos", action |-> "partition",
                   namespace |-> a.namespace, affected_pods |-> AffectedPods(target_check),
                   parameters |-> [direction |-> a.direction],
                   duration |-> a.duration])

create_network_corrupt(p) ==
    \/ \E a \in
              Near([namespace |-> Namespaces, target_labels |-> LabelFew, corrupt |-> PercentSamples,
               duration |-> DurationSamples, correlation |-> PercentSamples, mode |-> ModeFew,
               direction |-> DirectionSamples]) :
          Begin(p, "create_network_corrupt", a, "check_target",
              FirstError(<<validate_labels(a.target_labels), validate_percentage(a.corrupt),
                           validate_duration(a.duration), validate_percentage(a.correlation),
                           validate_mode(a.mode), validate_direction(a.direction)>>))
    \/ /\ op[p] = "create_network_corrupt"
       /\ \E hex8 \in HexSuffixes :
             LET a == args[p]
                 name == generate_name("network-corrupt", hex8)
             IN  CheckTarget(p, name,
                     render_network_chaos(name, a.namespace, "corrupt", a.target_labels, a.duration, a.mode,
                         [corrupt |-> a.corrupt, correlation |-> a.correlation, direction |-> a.direction]))
    \/ /\ op[p] = "create_network_corrupt"
       /\ LET a == args[p]
              name == local[p].name
              target_check == local[p].target_check
          IN  Apply(p,
                  [experiment_id |-> name, kind |-> "NetworkChaos", action |-> "corrupt",
                   namespace |-> a.namespace, affected_pods |-> AffectedPods(target_check),
                   parameters |-> [corrupt |-> a.corrupt \o <<"%">>, correlation |-> a.correlation,
                                   direction |-> a.direction],
                   duration |-> a.duration])

(***************************************************************************)
(* tools/pod.py                                                            *)
(***************************************************************************)
create_pod_kill(p) ==
    \/ \E a \in
              Near([namespace |-> Namespaces, target_labels |-> LabelFew, duration |-> DurationSamples,
               mode |-> ModeSamples, grace_period |-> <<0, 5, -1>>]) :
          Begin(p, "create_pod_kill", a, "check_target",
              FirstError(<<validate_labels(a.target_labels), validate_duration(a.duration),
                           validate_mode(a.mode),
                           IF a.grace_period < 0 THEN ValueError("grace_period") ELSE OK>>))
    \/ /\ op[p] = "create_pod_kill"
       /\ \E hex8 \in HexSuffixes :
             LET a == args[p]
                 name == generate_name("pod-kill", hex8)
             IN  CheckTarget(p, name,
                     render_pod_chaos(name, a.namespace, "pod-kill", a.target_labels, a.duration, a.mode,
                                      None, Some(a.grace_period)))
    \/ /\ op[p] = "create_pod_kill"
       /\ LET a == args[p]
              name == local[p].name
              target_check == local[p].target_check
          IN  Apply(p,
                  [experiment_id |-> name, kind |-> "PodChaos", action |-> "pod-kill",
                   namespace |-> a.namespace, affected_pods |-> AffectedPods(target_check),
                   parameters |-> [grace_period |-> a.grace_period, mode |-> a.mode],
                   duration |-> a.duration,
                   warning |-> IF a.mode = "all" THEN Some("Pods will be killed") ELSE None])

create_pod_failure(p) ==
    \/ \E a \in
              Near([namespace |-> Namespaces, target_labels |-> LabelSamples, duration |-> DurationSamples,
               mode |-> ModeFew]) :
          Begin(p, "create_pod_failure", a, "check_target",
              FirstError(<<validate_labels(a.target_labels), validate_duration(a.duration),
                           validate_mode(a.mode)>>))
    \/ /\ op[p] = "create_pod_failure"
       /\ \E hex8 \in HexSuffixes :
             LET a == args[p]
                 name == generate_name("pod-failure", hex8)
             IN  CheckTarget(p, name,
                     render_pod_chaos(name, a.namespace, "pod-failure", a.target_labels, a.duration, a.mode,
                                      None, None))
    \/ /\ op[p] = "create_pod_failure"
       /\ LET a == args[p]
              name == local[p].name
              target_check == local[p].target_check
          IN  Apply(p,
                  [experiment_id |-> name, kind |-> "PodChaos", action |-> "pod-failure",
                   namespace |-> a.namespace, affected_pods |-> AffectedPods(target_check),
                   parameters |-> [mode |-> a.mode],
                   duration |-> a.duration])

create_container_kill(p) ==
    \/ \E a \in
              Near([namespace |-> Namespaces, target_labels |-> LabelSamples,
               container_names |-> <<<<"vllm">>, <<>>>>, duration |-> DurationSamples, mode |-> ModeFew]) :
          Begin(p, "create_container_kill", a, "check_target",
              FirstError(<<validate_labels(a.target_labels), validate_duration(a.duration),
                           validate_mode(a.mode),
                           IF Len(a.container_names) = 0 THEN ValueError("container_names") ELSE OK>>))
    \/ /\ op[p] = "create_container_kill"
       /\ \E hex8 \in HexSuffixes :
             LET a == args[p]
                 name == generate_name("container-kill", hex8)
             IN  CheckTarget(p, name,
                     render_pod_chaos(name, a.namespace, "container-kill", a.target_labels, a.duration,
                                      a.mode, Some(a.container_names), None))
    \/ /\ op[p] = "create_container_kill"
       /\ LET a == args[p]
              name == local[p].name
              target_check == local[p].target_check
          IN  Apply(p,
                  [experiment_id |-> name, kind |-> "PodChaos", action |-> "container-kill",
                   namespace |-> a.namespace, affected_pods |-> AffectedPods(target_check),
                   parameters |-> [container_names |-> a.container_names, mode |-> a.mode],
                   duration |-> a.duration])

(***************************************************************************)
(* tools/stress.py                                                         *)
(***************************************************************************)
MemorySizeSamples == <<<<"1", "G", "B">>, <<"1", "T", "B">>, <<"2", "5", "6">>>>

create_stress_cpu(p) ==
    \/ \E a \in
              Near([namespace |-> Namespaces, target_labels |-> LabelFew, workers |-> <<2, 0, 17>>,
               duration |-> DurationSamples, load |-> <<None, Some(80), Some(101)>>, mode |-> ModeFew]) :
          Begin(p, "create_stress_cpu", a, "check_target",
              FirstError(<<validate_labels(a.target_labels), validate_duration(a.duration),
                           validate_mode(a.mode),
                           IF a.workers < 1 \/ a.workers > 16 THEN ValueError("workers") ELSE OK,
                           IF ~IsNone(a.load) /\ (Get(a.load, 1, 0) < 0 \/ Get(a.load, 1, 0) > 100)
                           THEN ValueError("load") ELSE OK>>))
    \/ /\ op[p] = "create_stress_cpu"
       /\ \E hex8 \in HexSuffixes :
             LET a == args[p]
                 name == generate_name("stress-cpu", hex8)
             IN  CheckTarget(p, name,
                     render_stress_chaos(name, a.namespace, a.target_labels, a.duration, a.mode,
                                         Some(a.workers), a.load, None, None))
    \/ /\ op[p] = "create_stress_cpu"
       /\ LET a == args[p]
              name == local[p].name
              target_check == local[p].target_check
          IN  Apply(p,
                  [experiment_id |-> name, kind |-> "StressChaos", stressor |-> "cpu",
                   namespace |-> a.namespace, affected_pods |-> AffectedPods(target_check),
                   parameters |-> [workers |-> a.workers, load |-> a.load],
                   duration |-> a.duration])

create_stress_memory(p) ==
    \/ \E a \in
              Near([namespace |-> Namespaces, target_labels |-> LabelFew, size |-> MemorySizeSamples,
               duration |-> DurationSamples, workers |-> <<1, 0, 9>>, mode |-> ModeFew]) :
          Begin(p, "create_stress_memory", a, "check_target",
              FirstError(<<validate_labels(a.target_labels), validate_memory_size(a.size),
                           validate_duration(a.duration), validate_mode(a.mode),
                           IF a.workers < 1 \/ a.workers > 8 THEN ValueError("workers") ELSE OK>>))
    \/ /\ op[p] = "create_stress_memory"
       /\ \E hex8 \in HexSuffixes :
             LET a == args[p]
                 name == generate_name("stress-memory", hex8)
             IN  CheckTarget(p, name,
                     render_stress_chaos(name, a.namespace, a.target_labels, a.duration, a.mode,
                                         None, None, Some(a.workers), Some(a.size)))
    \/ /\ op[p] = "create_stress_memory"
       /\ LET a == args[p]
              name == local[p].name
              target_check == local[p].target_check
          IN  Apply(p,
                  [experiment_id |-> name, kind |-> "StressChaos", stressor |-> "memory",
                   namespace |-> a.namespace, affected_pods |-> AffectedPods(target_check),
                   parameters |-> [workers |-> a.workers, size |-> a.size],
                   duration |-> a.duration])

create_stress_combined(p) ==
    \/ \E a \in
              Near([namespace |-> Namespaces, target_labels |-> LabelFew, duration |-> DurationSamples,
               cpu_workers |-> <<2, 17>>, cpu_load |-> <<None, Some(101)>>, memory_workers |-> <<1, 0, 9>>,
               memory_size |-> MemorySizeSamples, mode |-> ModeFew]) :
          Begin(p, "create_stress_combined", a, "check_target",
              FirstError(<<validate_labels(a.target_labels), validate_duration(a.duration),
                           validate_memory_size(a.memory_size), validate_mode(a.mode)>>))
    \/ /\ op[p] = "create_stress_combined"
       /\ \E hex8 \in HexSuffixes :
             LET a == args[p]
                 name == generate_name("stress-combined", hex8)
             IN  CheckTarget(p, name,
                     render_stress_chaos(name, a.namespace, a.target_labels, a.duration, a.mode,
                                         Some(a.cpu_workers), a.cpu_load, Some(a.memory_workers),
                                         Some(a.memory_size)))
    \/ /\ op[p] = "create_stress_combined"
       /\ LET a == args[p]
              name == local[p].name
              target_check == local[p].target_check
          IN  Apply(p,
                  [experiment_id |-> name, kind |-> "StressChaos", stressor |-> "combined",
                   namespace |-> a.namespace, affected_pods |-> AffectedPods(target_check),
                   parameters |-> [cpu_workers |-> a.cpu_workers, cpu_load |-> a.cpu_load,
                                   memory_workers |-> a.memory_workers, memory_size |-> a.memory_size],
                   duration |-> a.duration])

(***************************************************************************)
(* tools/io.py                                                             *)
(***************************************************************************)
VolumePathSamples == <<<<"/", "d", "a", "t", "a">>, <<"d", "a", "t", "a">>>>
PathSamples == <<"/data/file", "">>
IntPercentSamples == <<100, 101>>
IoMethodSamples == <<None, Some(<<"read">>)>>

\* validate_percentage(str(percent)), the volume_path and the path checks
validate_io_common(a) ==
    FirstError(<<validate_percentage(IntStr(a.percent)), validate_mode(a.mode),
                 IF Len(a.volume_path) = 0 \/ ~startswith(a.volume_path, <<"/">>)
                 THEN ValueError("volume_path") ELSE OK,
                 IF a.path = "" THEN ValueError("path") ELSE OK>>)

MethodsOrAll(methods) == IF Truthy(methods) THEN Get(methods, 1, <<>>) ELSE "all"

create_io_latency(p) ==
    \/ \E a \in
              Near([namespace |-> Namespaces, target_labels |-> LabelFew,
               volume_path |-> VolumePathSamples, path |-> PathSamples, delay |-> LatencySamples,
               duration |-> DurationSamples, percent |-> IntPercentSamples, mode |-> ModeFew,
               methods |-> IoMethodSamples]) :
          Begin(p, "create_io_latency", a, "check_target",
              FirstError(<<validate_labels(a.target_labels), validate_duration(a.delay),
                           validate_duration(a.duration), validate_io_common(a)>>))
    \/ /\ op[p] = "create_io_latency"
       /\ \E hex8 \in HexSuffixes :
             LET a == args[p]
                 name == generate_name("io-latency", hex8)
             IN  CheckTarget(p, name,
                     render_io_chaos(name, a.namespace, "latency", a.target_labels, a.duration,
                                     a.volume_path, a.path, a.percent, a.mode,
                                     [delay |-> a.delay, methods |-> a.methods]))
    \/ /\ op[p] = "create_io_latency"
       /\ LET a == args[p]
              name == local[p].name
              target_check == local[p].target_check
          IN  Apply(p,
                  [experiment_id |-> name, kind |-> "IOChaos", action |-> "latency",
                   namespace |-> a.namespace, affected_pods |-> AffectedPods(target_check),
                   parameters |-> [volume_path |-> a.volume_path, path |-> a.path, delay |-> a.delay,
                                   percent |-> a.percent, methods |-> MethodsOrAll(a.methods)],
                   duration |-> a.duration])

create_io_fault(p) ==
    \/ \E a \in
              Near([namespace |-> Namespaces, target_labels |-> LabelFew,
               volume_path |-> VolumePathSamples, path |-> PathSamples, errno |-> <<5, -1>>,
               duration |-> DurationSamples, percent |-> IntPercentSamples, mode |-> ModeFew,
               methods |-> IoMethodSamples]) :
          Begin(p, "create_io_fault", a, "check_target",
              FirstError(<<validate_labels(a.target_labels), validate_duration(a.duration),
                           validate_io_common(a),
                           IF a.errno < 0 THEN ValueError("errno") ELSE OK>>))
    \/ /\ op[p] = "create_io_fault"
       /\ \E hex8 \in HexSuffixes :
             LET a == args[p]
                 name == generate_name("io-fault", hex8)
             IN  CheckTarget(p, name,
                     render_io_chaos(name, a.namespace, "fault", a.target_labels, a.duration,
                                     a.volume_path, a.path, a.percent, a.mode,
                                     [errno |-> a.errno, methods |-> a.methods]))
    \/ /\ op[p] = "create_io_fault"
       /\ LET a == args[p]
              name == local[p].name
              target_check == local[p].target_check
          IN  Apply(p,
                  [experiment_id |-> name, kind |-> "IOChaos", action |-> "fault",
                   namespace |-> a.namespace, affected_pods |-> AffectedPods(target_check),
                   parameters |-> [volume_path |-> a.volume_path, path |-> a.path, errno |-> a.errno,
                                   percent |-> a.percent, methods |-> MethodsOrAll(a.methods)],
                   duration |-> a.duration])

attr_create_io_attr_override(a) ==
    PutIf(~IsNone(a.size), PutIf(~IsNone(a.perm), EmptyDict, "perm", Get(a.perm, 1, 0)),
          "size", Get(a.size, 1, 0))

create_io_attr_override(p) ==
    \/ \E a \in
              Near([namespace |-> Namespaces, target_labels |-> LabelFew,
               volume_path |-> VolumePathSamples, path |-> PathSamples, duration |-> DurationSamples,
               perm |-> <<Some(493), None, Some(-1)>>, size |-> <<None, Some(1024), Some(-1)>>,
               percent |-> IntPercentSamples, mode |-> ModeFew, methods |-> IoMethodSamples]) :
          Begin(p, "create_io_attr_override", a, "check_target",
              FirstError(<<validate_labels(a.target_labels), validate_duration(a.duration),
                           validate_io_common(a),
                           IF IsNone(a.perm) /\ IsNone(a.size) THEN ValueError("perm_or_size") ELSE OK,
                           IF ~IsNone(a.perm) /\ Get(a.perm, 1, 0) < 0 THEN ValueError("perm") ELSE OK,
                           IF ~IsNone(a.size) /\ Get(a.size, 1, 0) < 0 THEN ValueError("size") ELSE OK>>))
    \/ /\ op[p] = "create_io_attr_override"
       /\ \E hex8 \in HexSuffixes :
             LET a == args[p]
                 name == generate_name("io-attr-override", hex8)
             IN  CheckTarget(p, name,
                     render_io_chaos(name, a.namespace, "attrOverride", a.target_labels, a.duration,
                                     a.volume_path, a.path, a.percent, a.mode,
                                     [attr |-> attr_create_io_attr_override(a), methods |-> a.methods]))
    \/ /\ op[p] = "create_io_attr_override"
       /\ LET a == args[p]
              name == local[p].name
              target_check == local[p].target_check
          IN  Apply(p,
                  [experiment_id |-> name, kind |-> "IOChaos", action |-> "attrOverride",
                   namespace |-> a.namespace, affected_pods |-> AffectedPods(target_check),
                   parameters |-> [volume_path |-> a.volume_path, path |-> a.path,
                                   attr |-> attr_create_io_attr_override(a),
                                   percent |-> a.percent, methods |-> MethodsOrAll(a.methods)],
                   duration |-> a.duration])

create_io_mistake(p) ==
    \/ \E a \in
              Near([namespace |-> Namespaces, target_labels |-> LabelFew,
               volume_path |-> VolumePathSamples, path |-> PathSamples, duration |-> DurationSamples,
               filling |-> <<"zero", "ones">>, max_occurrences |-> <<1, 0>>, max_length |-> <<1, 0>>,
               percent |-> IntPercentSamples, mode |-> ModeFew, methods |-> IoMethodSamples]) :
          Begin(p, "create_io_mistake", a, "check_target",
              FirstError(<<validate_labels(a.target_labels), validate_duration(a.duration),
                           validate_io_common(a),
                           IF a.filling \notin {"zero", "random"} THEN ValueError("filling") ELSE OK,
                           IF a.max_occurrences < 1 THEN ValueError("max_occurrences") ELSE OK,
                           IF a.max_length < 1 THEN ValueError("max_length") ELSE OK>>))
    \/ /\ op[p] = "create_io_mistake"
       /\ \E hex8 \in HexSuffixes :
             LET a == args[p]
                 name == generate_name("io-mistake", hex8)
             IN  CheckTarget(p, name,
                     render_io_chaos(name, a.namespace, "mistake", a.target_labels, a.duration,
                                     a.volume_path, a.path, a.percent, a.mode,
                                     [filling |-> a.filling, max_occurrences |-> a.max_occurrences,
                                      max_length |-> a.max_length, methods |-> a.methods]))
    \/ /\ op[p] = "create_io_mistake"
       /\ LET a == args[p]
              name == local[p].name
              target_check == local[p].target_check
          IN  Apply(p,
                  [experiment_id |-> name, kind |-> "IOChaos", action |-> "mistake",
                   namespace |-> a.namespace, affected_pods |-> AffectedPods(target_check),
                   parameters |-> [volume_path |-> a.volume_path, path |-> a.path,
                                   filling |-> a.filling, max_occurrences |-> a.max_occurrences,
                                   max_length |-> a.max_length, percent |-> a.percent,
                                   methods |-> MethodsOrAll(a.methods)],
                   duration |-> a.duration])

(***************************************************************************)
(* tools/http.py                                                           *)
(***************************************************************************)
HttpMethods == {<<"G", "E", "T">>, <<"P", "O", "S", "T">>, <<"P", "U", "T">>,
                <<"D", "E", "L", "E", "T", "E">>, <<"P", "A", "T", "C", "H">>,
                <<"H", "E", "A", "D">>, <<"O", "P", "T", "I", "O", "N", "S">>,
                <<"C", "O", "N", "N", "E", "C", "T">>, <<"T", "R", "A", "C", "E">>}

PortSamples == <<80, 0, 65536>>
TargetSamples == <<"Request", "request">>
HttpMethodSamples ==
    <<None, Some(<<"g", "e", "t">>), Some(<<"f", "e", "t", "c", "h">>), Some(<<>>)>>
HttpPathSamples == <<None, Some("/api/*")>>
HeaderSamples == <<None, Some(<< <<"X-Chaos", "1">> >>)>>

validate_port(port) ==
    IF port < 1 \/ port > 65535 THEN ValueError("port") ELSE OK

validate_target(target) ==
    IF target \notin {"Request", "Response"} THEN ValueError("target") ELSE OK

validate_method(method) ==
    IF Truthy(method) /\ Upper(Get(method, 1, <<>>)) \notin HttpMethods
    THEN ValueError("method") ELSE OK

OrAll(x) == IF Truthy(x) THEN Get(x, 1, <<>>) ELSE "all"

\* base64.b64encode(body.encode()).decode(): an encoding of the body that is
\* not the body
b64encode(body) == <<"base64:">> \o body

create_http_abort(p) ==
    \/ \E a \in
              Near([namespace |-> Namespaces, target_labels |-> LabelFew, port |-> PortSamples,
               duration |-> DurationSamples, target |-> TargetSamples, method |-> HttpMethodSamples,
               path |-> HttpPathSamples, mode |-> ModeFew, request_headers |-> HeaderSamples]) :
          Begin(p, "create_http_abort", a, "check_target",
              FirstError(<<validate_labels(a.target_labels), validate_duration(a.duration),
                           validate_mode(a.mode), validate_port(a.port), validate_target(a.target),
                           validate_method(a.method)>>))
    \/ /\ op[p] = "create_http_abort"
       /\ \E hex8 \in HexSuffixes :
             LET a == args[p]
                 name == generate_name("http-abort", hex8)
             IN  CheckTarget(p, name,
                     render_http_chaos(name, a.namespace, a.target_labels, a.duration, a.port, a.target,
                                       a.mode, a.method, a.path, a.request_headers, [abort |-> TRUE]))
    \/ /\ op[p] = "create_http_abort"
       /\ LET a == args[p]
              name == local[p].name
              target_check == local[p].target_check
          IN  Apply(p,
                  [experiment_id |-> name, kind |-> "HTTPChaos", action |-> "abort",
                   namespace |-> a.namespace, affected_pods |-> AffectedPods(target_check),
                   parameters |-> [port |-> a.port, target |-> a.target, method |-> OrAll(a.method),
                                   path |-> OrAll(a.path), request_headers |-> a.request_headers],
                   duration |-> a.duration])

create_http_delay(p) ==
    \/ \E a \in
              Near([namespace |-> Namespaces, target_labels |-> LabelFew, port |-> PortSamples,
               delay |-> LatencySamples, duration |-> DurationSamples, target |-> TargetSamples,
               method |-> HttpMethodSamples, path |-> HttpPathSamples, mode |-> ModeFew,
               request_headers |-> <<None>>]) :
          Begin(p, "create_http_delay", a, "check_target",
              FirstError(<<validate_labels(a.target_labels), validate_duration(a.delay),
                           validate_duration(a.duration), validate_mode(a.mode),
                           validate_port(a.port), validate_target(a.target),
                           validate_method(a.method)>>))
    \/ /\ op[p] = "create_http_delay"
       /\ \E hex8 \in HexSuffixes :
             LET a == args[p]
                 name == generate_name("http-delay", hex8)
             IN  CheckTarget(p, name,
                     render_http_chaos(name, a.namespace, a.target_labels, a.duration, a.port, a.target,
                                       a.mode, a.method, a.path, a.request_headers, [delay |-> a.delay]))
    \/ /\ op[p] = "create_http_delay"
       /\ LET a == args[p]
              name == local[p].name
              target_check == local[p].target_check
          IN  Apply(p,
                  [experiment_id |-> name, kind |-> "HTTPChaos", action |-> "delay",
                   namespace |-> a.namespace, affected_pods |-> AffectedPods(target_check),
                   parameters |-> [port |-> a.port, target |-> a.target, delay |-> a.delay,
                                   method |-> OrAll(a.method), path |-> OrAll(a.path),
                                   request_headers |-> a.request_headers],
                   duration |-> a.duration])

create_http_replace(p) ==
    \/ \E a \in
              Near([namespace |-> Namespaces, target_labels |-> LabelFew, port |-> PortSamples,
               duration |-> DurationSamples, target |-> TargetSamples, method |-> HttpMethodSamples,
               path |-> <<None>>, replace_headers |-> <<Some(<< <<"X-Chaos", "1">> >>), None, Some(<<>>)>>,
               replace_body |-> <<None, Some(<<"h", "i">>), Some(<<>>)>>, mode |-> ModeFew,
               request_headers |-> <<None>>]) :
          Begin(p, "create_http_replace", a, "check_target",
              FirstError(<<validate_labels(a.target_labels), validate_duration(a.duration),
                           validate_mode(a.mode), validate_port(a.port), validate_target(a.target),
                           IF ~Truthy(a.replace_headers) /\ ~Truthy(a.replace_body)
                           THEN ValueError("replace_headers_or_body") ELSE OK,
                           validate_method(a.method)>>))
    \/ /\ op[p] = "create_http_replace"
       /\ \E hex8 \in HexSuffixes :
             LET a == args[p]
                 name == generate_name("http-replace", hex8)
             IN  CheckTarget(p, name,
                     render_http_chaos(name, a.namespace, a.target_labels, a.duration, a.port, a.target,
                                       a.mode, a.method, a.path, a.request_headers,
                                       [replace_headers |-> a.replace_headers,
                                        replace_body |-> IF Truthy(a.replace_body)
                                                         THEN Some(b64encode(Get(a.replace_body, 1, <<>>)))
                                                         ELSE None]))
    \/ /\ op[p] = "create_http_replace"
       /\ LET a == args[p]
              name == local[p].name
              target_check == local[p].target_check
          IN  Apply(p,
                  [experiment_id |-> name, kind |-> "HTTPChaos", action |-> "replace",
                   namespace |-> a.namespace, affected_pods |-> AffectedPods(target_check),
                   parameters |-> [port |-> a.port, target |-> a.target, method |-> OrAll(a.method),
                                   path |-> OrAll(a.path), replace_headers |-> a.replace_headers,
                                   replace_body |-> IF Truthy(a.replace_body) THEN a.replace_body
                                                    ELSE None,
                                   request_headers |-> a.request_headers],
                   duration |-> a.duration])

create_http_patch(p) ==
    \/ \E a \in
              Near([namespace |-> Namespaces, target_labels |-> LabelFew, port |-> PortSamples,
               duration |-> DurationSamples, target |-> TargetSamples, method |-> HttpMethodSamples,
               path |-> <<None>>,
               patch_headers |-> <<Some(<< <<"X-Chaos", "1">> >>), None, Some(<< <<"X-Chaos">> >>)>>,
               patch_body_value |-> <<None, Some("patched")>>, mode |-> ModeFew,
               request_headers |-> <<None>>]) :
          Begin(p, "create_http_patch", a, "check_target",
              FirstError(<<validate_labels(a.target_labels), validate_duration(a.duration),
                           validate_mode(a.mode), validate_port(a.port), validate_target(a.target),
                           IF ~Truthy(a.patch_headers) /\ ~Truthy(a.patch_body_value)
                           THEN ValueError("patch_headers_or_body") ELSE OK,
                           validate_method(a.method),
                           IF Truthy(a.patch_headers)
                              /\ \E i \in 1..Len(Get(a.patch_headers, 1, <<>>)) :
                                     Len(Get(a.patch_headers, 1, <<>>)[i]) # 2
                           THEN ValueError("patch_headers") ELSE OK>>))
    \/ /\ op[p] = "create_http_patch"
       /\ \E hex8 \in HexSuffixes :
             LET a == args[p]
                 name == generate_name("http-patch", hex8)
             IN  CheckTarget(p, name,
                     render_http_chaos(name, a.namespace, a.target_labels, a.duration, a.port, a.target,
                                       a.mode, a.method, a.path, a.request_headers,
                                       [patch_headers |-> a.patch_headers,
                                        patch_body_value |-> a.patch_body_value]))
    \/ /\ op[p] = "create_http_patch"
       /\ LET a == args[p]
              name == local[p].name
              target_check == local[p].target_check
          IN  Apply(p,
                  [experiment_id |-> name, kind |-> "HTTPChaos", action |-> "patch",
                   namespace |-> a.namespace, affected_pods |-> AffectedPods(target_check),
                   parameters |-> [port |-> a.port, target |-> a.target, method |-> OrAll(a.method),
                                   path |-> OrAll(a.path), patch_headers |-> a.patch_headers,
                                   patch_body_value |-> a.patch_body_value,
                                   request_headers |-> a.request_headers],
                   duration |-> a.duration])

(***************************************************************************)
(* tools/dns.py                                                            *)
(***************************************************************************)
PatternSamples ==
    <<None,
     Some(<< <<"*", ".", "a">> >>),
     Some(<< <<"a", ".", "*">> >>),
     Some(<< <<"*", "a", ".", "b">> >>),
     Some(<< <<"a", "*", "b", "*">> >>),
     Some(<< <<"a", ".", "b">>, <<>> >>)>>

validate_pattern(pattern) ==
    IF Len(pattern) = 0 THEN ValueError("pattern_empty")
    ELSE IF Contains(pattern, "*")
            /\ ~(endswith(pattern, <<"*">>) \/ startswith(pattern, <<"*", ".">>))
    THEN ValueError("pattern_wildcard")
    ELSE OK

validate_patterns(patterns) ==
    IF Truthy(patterns)
    THEN FirstError([i \in 1..Len(Get(patterns, 1, <<>>)) |->
                        validate_pattern(Get(patterns, 1, <<>>)[i])])
    ELSE OK

PatternsOrAll(patterns) ==
    IF Truthy(patterns) THEN Get(patterns, 1, <<>>) ELSE "all domains"

create_dns_error(p) ==
    \/ \E a \in
              Near([namespace |-> Namespaces, target_labels |-> LabelFew, duration |-> DurationSamples,
               patterns |-> PatternSamples, mode |-> ModeFew]) :
          Begin(p, "create_dns_error", a, "check_target",
              FirstError(<<validate_labels(a.target_labels), validate_duration(a.duration),
                           validate_mode(a.mode), validate_patterns(a.patterns)>>))
    \/ /\ op[p] = "create_dns_error"
       /\ \E hex8 \in HexSuffixes :
             LET a == args[p]
                 name == generate_name("dns-error", hex8)
             IN  CheckTarget(p, name,
                     render_dns_chaos(name, a.namespace, "error", a.target_labels, a.duration, a.mode,
                                      a.patterns))
    \/ /\ op[p] = "create_dns_error"
       /\ LET a == args[p]
              name == local[p].name
              target_check == local[p].target_check
          IN  Apply(p,
                  [experiment_id |-> name, kind |-> "DNSChaos", action |-> "error",
                   namespace |-> a.namespace, affected_pods |-> AffectedPods(target_check),
                   parameters |-> [patterns |-> PatternsOrAll(a.patterns), mode |-> a.mode],
                   duration |-> a.duration])

create_dns_random(p) ==
    \/ \E a \in
              Near([namespace |-> Namespaces, target_labels |-> LabelFew, duration |-> DurationSamples,
               patterns |-> PatternSamples, mode |-> ModeFew]) :
          Begin(p, "create_dns_random", a, "check_target",
              FirstError(<<validate_labels(a.target_labels), validate_duration(a.duration),
                           validate_mode(a.mode), validate_patterns(a.patterns)>>))
    \/ /\ op[p] = "create_dns_random"
       /\ \E hex8 \in HexSuffixes :
             LET a == args[p]
                 name == generate_name("dns-random", hex8)
             IN  CheckTarget(p, name,
                     render_dns_chaos(name, a.namespace, "random", a.target_labels, a.duration, a.mode,
                                      a.patterns))
    \/ /\ op[p] = "create_dns_random"
       /\ LET a == args[p]
              name == local[p].name
              target_check == local[p].target_check
          IN  Apply(p,
                  [experiment_id |-> name, kind |-> "DNSChaos", action |-> "random",
                   namespace |-> a.namespace, affected_pods |-> AffectedPods(target_check),
                   parameters |-> [patterns |-> PatternsOrAll(a.patterns), mode |-> a.mode],
                   duration |-> a.duration])

(***************************************************************************)
(* tools/physical.py                                                       *)
(***************************************************************************)
AddressSamples == <<Some(<<"192.168.1.100">>), None, Some(<<>>)>>
SelectorSamples == <<None, Some(<<>>), Some(<< <<"role", "db">> >>)>>

\* variants of the targeting check: none at all, and one that lets a call
\* without any target through
targeting_unchecked(a) == OK

targeting_not_both(a) ==
    IF Truthy(a.address) /\ Truthy(a.selector) THEN ValueError("address_and_selector")
    ELSE OK

\* the targeting check that opens each create_physical_* operation
validate_targeting(a) ==
    IF Truthy(a.address) /\ Truthy(a.selector) THEN ValueError("address_and_selector")
    ELSE IF ~Truthy(a.address) /\ ~Truthy(a.selector)
    THEN ValueError("address_or_selector")
    ELSE OK

TargetMode(a) == IF Truthy(a.address) THEN "address" ELSE "selector"
Targets(a) == IF Truthy(a.address) THEN a.address ELSE a.selector

create_physical_stress_cpu_samples ==
    [namespace |-> Namespaces, duration |-> DurationSamples, address |-> AddressSamples,
     selector |-> SelectorSamples, mode |-> ModeFew, workers |-> <<1>>,
     load |-> <<None, Some(80), Some(101)>>]

\* create_physical_stress_cpu called with arguments of the set given
create_physical_stress_cpu_with(p, given) ==
    \/ \E a \in given :
          Begin(p, "create_physical_stress_cpu", a, "render",
              FirstError(<<validate_targeting(a),
                           IF ~IsNone(a.load) /\ ~(0 <= Get(a.load, 1, 0) /\ Get(a.load, 1, 0) <= 100)
                           THEN ValueError("load") ELSE OK>>))
    \/ /\ op[p] = "create_physical_stress_cpu"
       /\ \E hex8 \in HexSuffixes :
             LET a == args[p]
                 name == generate_name("physical-cpu-stress", hex8)
             IN  Render(p, name,
                     render_physical_chaos(name, a.namespace, "stress-cpu", a.duration, a.mode, a.address,
                         a.selector,
                         PutIf(~IsNone(a.load), [workers |-> a.workers], "load", Get(a.load, 1, 0))))
    \/ /\ op[p] = "create_physical_stress_cpu"
       /\ LET a == args[p]
              name == local[p].name
              status == apply_yaml("ok").value
          IN  Apply(p,
                  [experiment_id |-> name, kind |-> "PhysicalMachineChaos", action |-> "stress-cpu",
                   namespace |-> a.namespace, target_mode |-> TargetMode(a), targets |-> Targets(a),
                   parameters |-> [duration |-> a.duration, mode |-> a.mode, workers |-> a.workers,
                                   load |-> a.load],
                   status |-> status])

create_physical_stress_cpu(p) ==
    create_physical_stress_cpu_with(p, Near(create_physical_stress_cpu_samples))

create_physical_stress_memory(p) ==
    \/ \E a \in
              Near([namespace |-> Namespaces, duration |-> DurationSamples, address |-> AddressSamples,
               selector |-> SelectorSamples, mode |-> ModeFew,
               size |-> <<None, Some(<<"5", "1", "2", "M", "B">>), Some(<<"l", "o", "t", "s">>)>>]) :
          Begin(p, "create_physical_stress_memory", a, "render",
              validate_targeting(a))
    \/ /\ op[p] = "create_physical_stress_memory"
       /\ \E hex8 \in HexSuffixes :
             LET a == args[p]
                 name == generate_name("physical-mem-stress", hex8)
             IN  Render(p, name,
                     render_physical_chaos(name, a.namespace, "stress-mem", a.duration, a.mode, a.address,
                         a.selector, PutIf(Truthy(a.size), EmptyDict, "size", Get(a.size, 1, <<>>))))
    \/ /\ op[p] = "create_physical_stress_memory"
       /\ LET a == args[p]
              name == local[p].name
              status == apply_yaml("ok").value
          IN  Apply(p,
                  [experiment_id |-> name, kind |-> "PhysicalMachineChaos", action |-> "stress-mem",
                   namespace |-> a.namespace, target_mode |-> TargetMode(a), targets |-> Targets(a),
                   parameters |-> [duration |-> a.duration, mode |-> a.mode, size |-> a.size],
                   status |-> status])

create_physical_disk_fill(p) ==
    \/ \E a \in
              Near([namespace |-> Namespaces, duration |-> DurationSamples, path |-> <<"/tmp/chaos-fill">>,
               size |-> <<<<"2", "G", "B">>, <<"2">>>>, address |-> AddressSamples,
               selector |-> SelectorSamples, mode |-> ModeFew, fill_by_fallocate |-> <<TRUE, FALSE>>]) :
          Begin(p, "create_physical_disk_fill", a, "render",
              validate_targeting(a))
    \/ /\ op[p] = "create_physical_disk_fill"
       /\ \E hex8 \in HexSuffixes :
             LET a == args[p]
                 name == generate_name("physical-disk-fill", hex8)
             IN  Render(p, name,
                     render_physical_chaos(name, a.namespace, "disk-fill", a.duration, a.mode, a.address,
                         a.selector,
                         [path |-> a.path, size |-> a.size, fill_by_fallocate |-> a.fill_by_fallocate]))
    \/ /\ op[p] = "create_physical_disk_fill"
       /\ LET a == args[p]
              name == local[p].name
              status == apply_yaml("ok").value
          IN  Apply(p,
                  [experiment_id |-> name, kind |-> "PhysicalMachineChaos", action |-> "disk-fill",
                   namespace |-> a.namespace, target_mode |-> TargetMode(a), targets |-> Targets(a),
                   parameters |-> [duration |-> a.duration, mode |-> a.mode, path |-> a.path,
                                   size |-> a.size, fill_by_fallocate |-> a.fill_by_fallocate],
                   status |-> status])

create_physical_process_kill(p) ==
    \/ \E a \in
              Near([namespace |-> Namespaces, duration |-> DurationSamples, process |-> <<"nginx">>,
               address |-> AddressSamples, selector |-> SelectorSamples, mode |-> ModeFew,
               signal |-> <<9, 15>>]) :
          Begin(p, "create_physical_process_kill", a, "render",
              validate_targeting(a))
    \/ /\ op[p] = "create_physical_process_kill"
       /\ \E hex8 \in HexSuffixes :
             LET a == args[p]
                 name == generate_name("physical-proc-kill", hex8)
             IN  Render(p, name,
                     render_physical_chaos(name, a.namespace, "process", a.duration, a.mode, a.address,
                         a.selector, [process |-> a.process, signal |-> a.signal]))
    \/ /\ op[p] = "create_physical_process_kill"
       /\ LET a == args[p]
              name == local[p].name
              status == apply_yaml("ok").value
          IN  Apply(p,
                  [experiment_id |-> name, kind |-> "PhysicalMachineChaos", action |-> "process-kill",
                   namespace |-> a.namespace, target_mode |-> TargetMode(a), targets |-> Targets(a),
                   parameters |-> [duration |-> a.duration, mode |-> a.mode, process |-> a.process,
                                   signal |-> a.signal],
                   status |-> status])

create_physical_clock_skew(p) ==
    \/ \E a \in
              Near([namespace |-> Namespaces, duration |-> DurationSamples,
               time_offset |-> <<<<"1", "0", "m">>, <<"-", "1", "0", "s">>>>, pid |-> <<1234>>,
               address |-> AddressSamples, selector |-> SelectorSamples, mode |-> ModeFew,
               clock_ids |-> <<None, Some(<<"CLOCK_REALTIME", "CLOCK_MONOTONIC">>)>>]) :
          Begin(p, "create_physical_clock_skew", a, "render",
              validate_targeting(a))
    \/ /\ op[p] = "create_physical_clock_skew"
       /\ \E hex8 \in HexSuffixes :
             LET a == args[p]
                 name == generate_name("physical-clock-skew", hex8)
             IN  Render(p, name,
                     render_physical_chaos(name, a.namespace, "clock", a.duration, a.mode, a.address,
                         a.selector,
                         PutIf(Truthy(a.clock_ids), [time_offset |-> a.time_offset, pid |-> a.pid],
                               "clock_ids", Get(a.clock_ids, 1, <<>>))))
    \/ /\ op[p] = "create_physical_clock_skew"
       /\ LET a == args[p]
              name == local[p].name
              status == apply_yaml("ok").value
          IN  Apply(p,
                  [experiment_id |-> name, kind |-> "PhysicalMachineChaos", action |-> "clock-skew",
                   namespace |-> a.namespace, target_mode |-> TargetMode(a), targets |-> Targets(a),
                   parameters |-> [duration |-> a.duration, mode |-> a.mode,
                                   time_offset |-> a.time_offset, pid |-> a.pid,
                                   clock_ids |-> IF Truthy(a.clock_ids) THEN Get(a.clock_ids, 1, <<>>)
                                                 ELSE <<"CLOCK_REALTIME">>],
                   status |-> status])

(***************************************************************************)
(* The creation operations, by what they target                            *)
(***************************************************************************)
PodOps == {"create_network_delay", "create_network_loss", "create_network_partition",
           "create_network_corrupt", "create_pod_kill", "create_pod_failure",
           "create_container_kill", "create_stress_cpu", "create_stress_memory",
           "create_stress_combined", "create_io_latency", "create_io_fault",
           "create_io_attr_override", "create_io_mistake", "create_http_abort",
           "create_http_delay", "create_http_replace", "create_http_patch",
           "create_dns_error", "create_dns_random"}

MachineOps == {"create_physical_stress_cpu", "create_physical_stress_memory",
               "create_physical_disk_fill", "create_physical_process_kill",
               "create_physical_clock_skew"}

CreationOps == PodOps \cup MachineOps

\* the cluster: the pods matching the selector come and go while an
\* invocation is under way
MaxPods == 2
PodName(i) == "mongodb-" \o ToString(i - 1)
PodLists == {[i \in 1..n |-> PodName(i)] : n \in 0..MaxPods}

PodsChange ==
    /\ \E p \in Procs : pc[p] \notin {"idle", "done"}
    /\ \E l \in PodLists : l # pods /\ pods' = l
    /\ UNCHANGED <<pc, op, args, local, result, calls, chaos>>

KeyError(what) == [OK EXCEPT !.exc = "KeyError", !.what = what]

\* variant of render_physical_chaos_error: an action outside the five is refused
render_physical_chaos_enum(action, action_params) ==
    IF action \in {"stress-cpu", "stress-mem", "disk-fill", "process", "clock"}
    THEN OK ELSE KeyError(action)

\* action_params[key] for a key the caller did not pass
render_physical_chaos_error(action, action_params) ==
    LET needed == CASE action = "disk-fill" -> <<"path", "size">>
                    [] action = "process" -> <<"process">>
                    [] action = "clock" -> <<"time_offset", "pid">>
                    [] OTHER -> <<>>
    IN  FirstError([i \in 1..Len(needed) |->
                       IF needed[i] \in DOMAIN action_params THEN OK
                       ELSE KeyError(needed[i])])

PhysicalActionSamples ==
    <<"stress-mem", "disk-fill", "process", "stress-cpu", "clock", "reboot">>

PhysicalParamSamples ==
    <<EmptyDict, [size |-> <<"1", "G">>],
      [path |-> "/tmp/fill", size |-> <<"1", "G">>],
      [process |-> "nginx"],
      [time_offset |-> <<"-", "5", "m">>, pid |-> 1, clock_ids |-> <<"CLOCK_REALTIME">>],
      [workers |-> 2, load |-> 80]>>

\* render_physical_chaos called on its own, whatever the targeting
RenderPhysical(p) ==
    \E a \in Near([namespace |-> Namespaces, duration |-> DurationSamples,
                   mode |-> ModeFew, address |-> AddressSamples,
                   selector |-> SelectorSamples,
                   action |-> PhysicalActionSamples,
                   action_params |-> PhysicalParamSamples]),
       hex8 \in HexSuffixes :
        /\ pc[p] = "idle"
        /\ op' = [op EXCEPT ![p] = "render_physical_chaos"]
        /\ args' = [args EXCEPT ![p] = a]
        /\ result' = [result EXCEPT ![p] =
               IF IsError(render_physical_chaos_error(a.action, a.action_params))
               THEN Raised(render_physical_chaos_error(a.action, a.action_params))
               ELSE Returned(
                   render_physical_chaos(generate_name("physical", hex8), a.namespace,
                       a.action, a.duration, a.mode, a.address, a.selector,
                       a.action_params))]
        /\ pc' = [pc EXCEPT ![p] = "done"]
        /\ UNCHANGED <<local, calls, pods, chaos>>

\* a render function called on its own with parameters a returns manifest
Rendered(p, o, a, manifest) ==
    /\ pc[p] = "idle"
    /\ op' = [op EXCEPT ![p] = o]
    /\ args' = [args EXCEPT ![p] = a]
    /\ result' = [result EXCEPT ![p] = Returned(manifest)]
    /\ pc' = [pc EXCEPT ![p] = "done"]
    /\ UNCHANGED <<local, calls, pods, chaos>>

RenderNamespaces == <<"default", "chaos-testing">>

RenderNetwork(p) ==
    \E a \in Near([name |-> <<"network-x">>, namespace |-> RenderNamespaces,
                   action |-> <<"delay", "loss", "corrupt", "partition", "bandwidth">>,
                   target_labels |-> LabelSamples, duration |-> DurationSamples,
                   mode |-> ModeSamples,
                   action_params |->
                       <<EmptyDict,
                         [latency |-> <<"1", "s">>, direction |-> "to"],
                         [direction |-> "both", target |-> "peer"],
                         [external_targets |-> None]>>]) :
        Rendered(p, "render_network_chaos", a,
            render_network_chaos(a.name, a.namespace, a.action, a.target_labels,
                                 a.duration, a.mode, a.action_params))

RenderStress(p) ==
    \E a \in Near([name |-> <<"stress-x">>, namespace |-> RenderNamespaces,
                   target_labels |-> LabelSamples, duration |-> DurationSamples,
                   mode |-> ModeSamples, cpu_workers |-> <<None, Some(2), Some(0)>>,
                   cpu_load |-> <<None, Some(80)>>,
                   memory_workers |-> <<None, Some(2), Some(0)>>,
                   memory_size |-> <<None, Some(<<"1", "G", "B">>), Some(<<>>)>>]) :
        Rendered(p, "render_stress_chaos", a,
            render_stress_chaos(a.name, a.namespace, a.target_labels, a.duration, a.mode,
                                a.cpu_workers, a.cpu_load, a.memory_workers, a.memory_size))

RenderPod(p) ==
    \E a \in Near([name |-> <<"pod-x">>, namespace |-> RenderNamespaces,
                   action |-> <<"pod-kill", "pod-failure", "container-kill", "pod-restart">>,
                   target_labels |-> LabelSamples, duration |-> DurationSamples,
                   mode |-> ModeSamples, container_names |-> <<None, Some(<<"app">>)>>,
                   grace_period |-> <<None, Some(0)>>]) :
        Rendered(p, "render_pod_chaos", a,
            render_pod_chaos(a.name, a.namespace, a.action, a.target_labels, a.duration,
                             a.mode, a.container_names, a.grace_period))

RenderIo(p) ==
    \E a \in Near([name |-> <<"io-x">>, namespace |-> RenderNamespaces,
                   action |-> <<"latency", "fault", "attrOverride", "mistake", "truncate">>,
                   target_labels |-> LabelSamples, duration |-> DurationSamples,
                   volume_path |-> VolumePathSamples, path |-> PathSamples,
                   percent |-> IntPercentSamples, mode |-> ModeSamples,
                   action_params |->
                       <<EmptyDict,
                         [delay |-> <<"1", "s">>, methods |-> Some(<<"READ">>)],
                         [errno |-> 28],
                         [attr |-> [perm |-> 72]],
                         [filling |-> "zero", max_occurrences |-> 1, max_length |-> 1]>>]) :
        Rendered(p, "render_io_chaos", a,
            render_io_chaos(a.name, a.namespace, a.action, a.target_labels, a.duration,
                            a.volume_path, a.path, a.percent, a.mode, a.action_params))

RenderHttp(p) ==
    \E a \in Near([name |-> <<"http-x">>, namespace |-> RenderNamespaces,
                   target_labels |-> LabelSamples, duration |-> DurationSamples,
                   port |-> PortSamples, target |-> TargetSamples, mode |-> ModeSamples,
                   method |-> HttpMethodSamples, path |-> HttpPathSamples,
                   request_headers |-> HeaderSamples,
                   action_params |->
                       <<EmptyDict, [abort |-> TRUE], [delay |-> <<"1", "s">>],
                         [replace_headers |-> None, replace_body |-> Some(<<"a", "Q">>)],
                         [patch_headers |-> None, patch_body_value |-> None]>>]) :
        Rendered(p, "render_http_chaos", a,
            render_http_chaos(a.name, a.namespace, a.target_labels, a.duration, a.port,
                              a.target, a.mode, a.method, a.path, a.request_headers,
                              a.action_params))

RenderDns(p) ==
    \E a \in Near([name |-> <<"dns-x">>, namespace |-> RenderNamespaces,
                   action |-> <<"error", "random", "nxdomain">>,
                   target_labels |-> LabelSamples, duration |-> DurationSamples,
                   mode |-> ModeSamples, patterns |-> PatternSamples]) :
        Rendered(p, "render_dns_chaos", a,
            render_dns_chaos(a.name, a.namespace, a.action, a.target_labels, a.duration,
                             a.mode, a.patterns))

NoChaos == [k \in Elems(CHAOS_KINDS) |-> EmptyDict]

\* the prefixes the creation operations give their names
NamePrefixes ==
    {"network-delay", "network-loss", "network-partition", "network-corrupt",
     "pod-kill", "pod-failure", "container-kill", "stress-cpu", "stress-memory",
     "stress-combined", "io-latency", "io-fault", "io-attr-override", "io-mistake",
     "http-abort", "http-delay", "http-replace", "http-patch", "dns-error",
     "dns-random", "physical-cpu-stress", "physical-mem-stress", "physical-disk-fill",
     "physical-proc-kill", "physical-clock-skew"}

\* a cluster where every kind holds, under every prefix, the name of one
\* suffix already
HeldAlready ==
    LET hex8 == CHOOSE h \in HexSuffixes : TRUE
        names == {generate_name(prefix, hex8) : prefix \in NamePrefixes}
    IN  [k \in Elems(CHAOS_KINDS) |->
            [n \in names |-> [paused |-> FALSE, spec |-> EmptyDict, status |-> EmptyDict]]]

InitCreate ==
    /\ pc = [p \in Procs |-> "idle"]
    /\ op = [p \in Procs |-> ""]
    /\ args = [p \in Procs |-> EmptyDict]
    /\ local = [p \in Procs |-> NoLocal]
    /\ result = [p \in Procs |-> NoResult]
    /\ calls = <<>>
    /\ pods \in PodLists
    /\ chaos \in {NoChaos, HeldAlready}

Caller == CHOOSE p \in Procs : TRUE

NextCreate ==
    \/ create_network_delay(Caller)
    \/ create_network_loss(Caller)
    \/ create_network_partition(Caller)
    \/ create_network_corrupt(Caller)
    \/ create_pod_kill(Caller)
    \/ create_pod_failure(Caller)
    \/ create_container_kill(Caller)
    \/ create_stress_cpu(Caller)
    \/ create_stress_memory(Caller)
    \/ create_stress_combined(Caller)
    \/ create_io_latency(Caller)
    \/ create_io_fault(Caller)
    \/ create_io_attr_override(Caller)
    \/ create_io_mistake(Caller)
    \/ create_http_abort(Caller)
    \/ create_http_delay(Caller)
    \/ create_http_replace(Caller)
    \/ create_http_patch(Caller)
    \/ create_dns_error(Caller)
    \/ create_dns_random(Caller)
    \/ create_physical_stress_cpu(Caller)
    \/ create_physical_stress_memory(Caller)
    \/ create_physical_disk_fill(Caller)
    \/ create_physical_process_kill(Caller)
    \/ create_physical_clock_skew(Caller)
        \/ RenderPhysical(Caller)
    \/ PodsChange

SpecCreate == InitCreate /\ [][NextCreate]_vars

(***************************************************************************)
(* The seven render functions on their own                                 *)
(***************************************************************************)
NextRender ==
    \/ RenderNetwork(Caller)
    \/ RenderStress(Caller)
    \/ RenderPod(Caller)
    \/ RenderIo(Caller)
    \/ RenderHttp(Caller)
    \/ RenderDns(Caller)
    \/ RenderPhysical(Caller)

SpecRender == InitCreate /\ [][NextRender]_vars

(***************************************************************************)
(* Two invocations under way at once, each taking its steps between the    *)
(* collaborator calls of the other                                         *)
(***************************************************************************)
\* the arguments of the concurrent calls: the first sample of every
\* parameter but the address, and parameters left to their defaults at will
ConcurrentArguments(samples) ==
    {a \in Deviating(samples, 1) :
        \A f \in DOMAIN a \ {"address"} : a[f] = samples[f][1]}

NextConcurrent ==
    \/ \E p \in Procs :
          create_network_delay_with(p, ConcurrentArguments(create_network_delay_samples))
    \/ \E p \in Procs :
          create_physical_stress_cpu_with(p,
              ConcurrentArguments(create_physical_stress_cpu_samples))
    \/ PodsChange

InitConcurrent == InitCreate /\ chaos = NoChaos

SpecConcurrent == InitConcurrent /\ [][NextConcurrent]_vars

(***************************************************************************)
(* templates.py: interpret_chaos_status                                    *)
(***************************************************************************)
\* variant of CheckConditions: the last AllInjected condition decides the phase
RECURSIVE CheckConditionsLast(_, _, _)
CheckConditionsLast(conditions, i, acc) ==
    IF i > Len(conditions) THEN acc
    ELSE LET condition == conditions[i]
             type == Get(condition, "type", "")
             true == Get(condition, "status", "") = "True"
         IN  CheckConditionsLast(conditions, i + 1,
                 IF type = "AllInjected"
                 THEN [acc EXCEPT !.phase = IF true THEN "Running" ELSE "Pending",
                                  !.message = Get(condition, "message", "")]
                 ELSE IF type = "Selected" /\ true
                 THEN [acc EXCEPT !.injected_pods = Some(Get(condition, "reason", "0"))]
                 ELSE acc)

\* the loop over status.conditions, from condition i on
RECURSIVE CheckConditions(_, _, _)
CheckConditions(conditions, i, acc) ==
    IF i > Len(conditions) THEN acc
    ELSE LET condition == conditions[i]
             type == Get(condition, "type", "")
             true == Get(condition, "status", "") = "True"
         IN  CheckConditions(conditions, i + 1,
                 IF type = "AllInjected"
                 THEN [acc EXCEPT !.phase = IF true THEN "Running" ELSE @,
                                  !.message = Get(condition, "message", "")]
                 ELSE IF type = "Selected" /\ true
                 THEN [acc EXCEPT !.injected_pods = Some(Get(condition, "reason", "0"))]
                 ELSE acc)

\* injected_pods is the integer 0 (None here) until a Selected condition gives
\* its reason, a string
interpret_chaos_status(chaos_obj) ==
    LET status == Get(chaos_obj, "status", EmptyDict)
        conditions == Get(status, "conditions", <<>>)
        checked == CheckConditions(conditions, 1,
                       [phase |-> "Pending", injected_pods |-> None, message |-> ""])
        experiment == Get(status, "experiment", EmptyDict)
    IN  [phase |-> IF "experiment" \in DOMAIN status
                      /\ Get(experiment, "phase", "") = "Finished"
                   THEN "Finished" ELSE checked.phase,
         injected_pods |-> checked.injected_pods,
         message |-> checked.message,
         records |-> Get(experiment, "records", <<>>)]

(***************************************************************************)
(* kubectl.py and the kubectl commands of tools/management.py              *)
(***************************************************************************)
RECURSIVE SeqOf(_)
SeqOf(S) == IF S = {} THEN <<>>
            ELSE LET x == CHOOSE y \in S : TRUE IN <<x>> \o SeqOf(S \ {x})

\* the document kubectl prints for a resource
Document(kind, name) ==
    [kind |-> kind,
     metadata |-> [name |-> name, namespace |-> "default",
                   creationTimestamp |-> "2024-01-01T00:00:00Z"],
     spec |-> chaos[kind][name].spec,
     status |-> chaos[kind][name].status]

\* kind.lower(), for the kind names in use
lower(kind) ==
    CASE kind = "NetworkChaos" -> "networkchaos" [] kind = "StressChaos" -> "stresschaos"
      [] kind = "PodChaos" -> "podchaos" [] kind = "IOChaos" -> "iochaos"
      [] kind = "HTTPChaos" -> "httpchaos" [] kind = "DNSChaos" -> "dnschaos"
      [] kind = "TimeChaos" -> "timechaos" [] kind = "KernelChaos" -> "kernelchaos"
      [] kind = "PhysicalMachineChaos" -> "physicalmachinechaos"
      [] kind = "Deployment" -> "deployment"
      [] OTHER -> kind

\* the resource types kubectl get <kind.lower()> names
Served(kind) == {k \in DOMAIN chaos : lower(k) = lower(kind)}

\* kubectl get <kind.lower()> -o json: fails for a kind the cluster does not know
list_kind(kind, outcome) ==
    IF Served(kind) # {}
    THEN LET served == CHOOSE k \in Served(kind) : TRUE
             names == SeqOf(DOMAIN chaos[served])
         IN  list_resources([i \in 1..Len(names) |-> Document(served, names[i])], outcome)
    ELSE list_resources(<<>>, "fail")

\* variant of Remove: the resource stays
RemoveNothing(d, k) == d

Remove(d, k) == [x \in DOMAIN d \ {k} |-> d[x]]

\* variant of delete_resource: deleting what is not there succeeds
delete_resource_if_any(kind, name, outcome) ==
    IF outcome = "ok"
    THEN [err |-> OK, value |-> [status |-> "deleted", output |-> "deleted"]]
    ELSE [err |-> KubectlError("delete", Stderr), value |-> EmptyDict]

\* delete_resource: the returned dict, or the KubectlError raised
delete_resource(kind, name, outcome) ==
    IF outcome = "ok" /\ Holds(kind, name)
    THEN [err |-> OK, value |-> [status |-> "deleted", output |-> "deleted"]]
    ELSE [err |-> KubectlError("delete", Stderr), value |-> EmptyDict]

\* kubectl annotate <kind>/<name> experiment.chaos-mesh.org/pause...: its
\* return code
annotate(kind, name, outcome) ==
    IF outcome = "ok" /\ Holds(kind, name) THEN 0 ELSE 1

(***************************************************************************)
(* tools/management.py                                                     *)
(***************************************************************************)
ExperimentIds == <<"network-delay-a3f4b2c1", "pod-kill-0badc0de">>

Args_experiment == {[experiment_id |-> ExperimentIds[i], namespace |-> "default"] :
                       i \in DOMAIN ExperimentIds}

Target(kind, name) == [kind |-> kind, name |-> name]

get_experiment_status(p) ==
    \/ \E a \in Args_experiment : Begin(p, "get_experiment_status", a, "find_kind", OK)
    \/ /\ op[p] = "get_experiment_status"
       /\ pc[p] = "find_kind"
       /\ LET a == args[p]
              kind == CHAOS_KINDS[local[p].idx]
              got == get_resource(kind, a.experiment_id)
              chaos_obj == got.value
              status == interpret_chaos_status(chaos_obj)
          IN  /\ calls' = Append(calls, Call(p, "get", Target(kind, a.experiment_id),
                                             ~IsError(got.err)))
              /\ IF ~IsError(got.err)
                 THEN /\ result' = [result EXCEPT ![p] = Returned(
                            [experiment_id |-> a.experiment_id,
                             kind |-> kind,
                             namespace |-> a.namespace,
                             phase |-> status.phase,
                             injected_pods |-> status.injected_pods,
                             message |-> status.message,
                             records |-> status.records,
                             spec |-> Get(chaos_obj, "spec", EmptyDict)])]
                      /\ pc' = [pc EXCEPT ![p] = "done"]
                      /\ UNCHANGED local
                 ELSE IF local[p].idx < Len(CHAOS_KINDS)
                 THEN /\ local' = [local EXCEPT ![p].idx = @ + 1]
                      /\ UNCHANGED <<pc, result>>
                 ELSE /\ result' = [result EXCEPT ![p] = Raised(
                            [ValueError("not_found") EXCEPT !.checked = CHAOS_KINDS])]
                      /\ pc' = [pc EXCEPT ![p] = "done"]
                      /\ UNCHANGED local
       /\ UNCHANGED <<op, args, pods, chaos>>

\* one turn of the loop that finds the kind a delete, pause or resume acts on
FindKind(p, next) ==
    /\ pc[p] = "find_kind"
    /\ LET a == args[p]
           kind == CHAOS_KINDS[local[p].idx]
           got == get_resource(kind, a.experiment_id)
       IN  /\ calls' = Append(calls, Call(p, "get", Target(kind, a.experiment_id),
                                          ~IsError(got.err)))
           /\ IF ~IsError(got.err)
              THEN /\ local' = [local EXCEPT ![p].found_kind = kind]
                   /\ pc' = [pc EXCEPT ![p] = next]
                   /\ UNCHANGED result
              ELSE IF local[p].idx < Len(CHAOS_KINDS)
              THEN /\ local' = [local EXCEPT ![p].idx = @ + 1]
                   /\ UNCHANGED <<pc, result>>
              ELSE /\ result' = [result EXCEPT ![p] = Raised(ValueError("not_found"))]
                   /\ pc' = [pc EXCEPT ![p] = "done"]
                   /\ UNCHANGED local
    /\ UNCHANGED <<op, args, pods, chaos>>

\* delete_experiment called with arguments among given
delete_experiment_with(p, given) ==
    \/ \E a \in given : Begin(p, "delete_experiment", a, "find_kind", OK)
    \/ /\ op[p] = "delete_experiment"
       /\ FindKind(p, "delete")
    \/ /\ op[p] = "delete_experiment"
       /\ pc[p] = "delete"
       /\ \E outcome \in OutcomesLeft(p) :
             LET a == args[p]
                 found_kind == local[p].found_kind
                 deleted == delete_resource(found_kind, a.experiment_id, outcome)
             IN  /\ calls' = Append(calls, Call(p, "delete",
                                                Target(found_kind, a.experiment_id),
                                                ~IsError(deleted.err)))
                 /\ IF IsError(deleted.err)
                    THEN /\ result' = [result EXCEPT ![p] = Raised(deleted.err)]
                         /\ UNCHANGED chaos
                    ELSE /\ result' = [result EXCEPT ![p] = Returned(
                               [status |-> "deleted",
                                experiment_id |-> a.experiment_id,
                                kind |-> found_kind,
                                namespace |-> a.namespace])]
                         /\ chaos' = [chaos EXCEPT ![found_kind] =
                               Remove(@, a.experiment_id)]
       /\ pc' = [pc EXCEPT ![p] = "done"]
       /\ UNCHANGED <<op, args, local, pods>>

delete_experiment(p) == delete_experiment_with(p, Args_experiment)

\* variant of Annotate: the annotation is flipped
AnnotateFlipped(p, paused, what, value) ==
    /\ pc[p] = "annotate"
    /\ \E outcome \in OutcomesLeft(p) :
          LET a == args[p]
              found_kind == local[p].found_kind
              returncode == annotate(found_kind, a.experiment_id, outcome)
          IN  /\ calls' = Append(calls, Call(p, "annotate",
                                             Target(found_kind, a.experiment_id),
                                             returncode = 0))
              /\ IF returncode # 0
                 THEN /\ result' = [result EXCEPT ![p] = Raised(RuntimeError(what, Stderr))]
                      /\ UNCHANGED chaos
                 ELSE /\ result' = [result EXCEPT ![p] = Returned(value)]
                      /\ chaos' = [chaos EXCEPT ![found_kind][a.experiment_id].paused =
                                       ~@]
    /\ pc' = [pc EXCEPT ![p] = "done"]
    /\ UNCHANGED <<op, args, local, pods>>

\* kubectl annotate on the kind found, then the return; paused is what the
\* annotation becomes
Annotate(p, paused, what, value) ==
    /\ pc[p] = "annotate"
    /\ \E outcome \in OutcomesLeft(p) :
          LET a == args[p]
              found_kind == local[p].found_kind
              returncode == annotate(found_kind, a.experiment_id, outcome)
          IN  /\ calls' = Append(calls, Call(p, "annotate",
                                             Target(found_kind, a.experiment_id),
                                             returncode = 0))
              /\ IF returncode # 0
                 THEN /\ result' = [result EXCEPT ![p] = Raised(RuntimeError(what, Stderr))]
                      /\ UNCHANGED chaos
                 ELSE /\ result' = [result EXCEPT ![p] = Returned(value)]
                      /\ chaos' = [chaos EXCEPT ![found_kind][a.experiment_id].paused =
                                       paused]
    /\ pc' = [pc EXCEPT ![p] = "done"]
    /\ UNCHANGED <<op, args, local, pods>>

pause_experiment(p) ==
    \/ \E a \in Args_experiment : Begin(p, "pause_experiment", a, "find_kind", OK)
    \/ /\ op[p] = "pause_experiment"
       /\ FindKind(p, "annotate")
    \/ /\ op[p] = "pause_experiment"
       /\ Annotate(p, TRUE, "pause",
              [status |-> "paused",
               experiment_id |-> args[p].experiment_id,
               kind |-> local[p].found_kind])

resume_experiment(p) ==
    \/ \E a \in Args_experiment : Begin(p, "resume_experiment", a, "find_kind", OK)
    \/ /\ op[p] = "resume_experiment"
       /\ FindKind(p, "annotate")
    \/ /\ op[p] = "resume_experiment"
       /\ Annotate(p, FALSE, "resume",
              [status |-> "resumed",
               experiment_id |-> args[p].experiment_id,
               kind |-> local[p].found_kind])

\* the items kubectl get events prints
EventLists ==
    {<<>>,
     << [type |-> "Normal", reason |-> "Applied", message |-> "Successfully apply chaos",
         lastTimestamp |-> "", firstTimestamp |-> "2024-01-01T00:00:00Z"],
        [type |-> "Warning", reason |-> "Failed", message |-> "Failed to apply chaos",
         lastTimestamp |-> "2024-01-01T00:00:05Z", count |-> 3] >>}

get_experiment_events(p) ==
    \E a \in Args_experiment, outcome \in OutcomesLeft(p), items \in EventLists :
        LET returncode == IF outcome = "ok" THEN 0 ELSE 1
            events == [i \in 1..Len(items) |->
                          [type |-> Get(items[i], "type", ""),
                           reason |-> Get(items[i], "reason", ""),
                           message |-> Get(items[i], "message", ""),
                           timestamp |-> IF Get(items[i], "lastTimestamp", "") # ""
                                         THEN items[i].lastTimestamp
                                         ELSE Get(items[i], "firstTimestamp", ""),
                           count |-> Get(items[i], "count", 1)]]
        IN  /\ pc[p] = "idle"
            /\ op' = [op EXCEPT ![p] = "get_experiment_events"]
            /\ args' = [args EXCEPT ![p] = a]
            /\ calls' = Append(calls, Call(p, "events", a.experiment_id, returncode = 0))
            /\ result' = [result EXCEPT ![p] =
                              Returned(IF returncode # 0 THEN <<>> ELSE events)]
            /\ pc' = [pc EXCEPT ![p] = "done"]
            /\ UNCHANGED <<local, pods, chaos>>

KindSamples == <<None, Some("PodChaos"), Some("Deployment"), Some("podchaos")>>

list_active_experiments(p) ==
    \/ \E i \in DOMAIN KindSamples :
          Begin(p, "list_active_experiments",
                [namespace |-> "default", kind |-> KindSamples[i]], "list", OK)
    \/ /\ op[p] = "list_active_experiments"
       /\ pc[p] = "list"
       /\ \E outcome \in OutcomesLeft(p) :
             LET a == args[p]
                 kinds_to_check == IF Truthy(a.kind) THEN a.kind ELSE CHAOS_KINDS
                 chaos_kind == kinds_to_check[local[p].idx]
                 resources == list_kind(chaos_kind, outcome)
                 experiments == local[p].experiments \o
                     [i \in 1..Len(resources) |->
                         LET resource == resources[i]
                             metadata == Get(resource, "metadata", EmptyDict)
                             spec == Get(resource, "spec", EmptyDict)
                             status_info == interpret_chaos_status(resource)
                         IN  [experiment_id |-> Get(metadata, "name", None),
                              kind |-> chaos_kind,
                              namespace |-> Get(metadata, "namespace", a.namespace),
                              phase |-> status_info.phase,
                              created |-> Get(metadata, "creationTimestamp", None),
                              duration |-> Get(spec, "duration", None),
                              action |-> Get(spec, "action", None),
                              mode |-> Get(spec, "mode", None)]]
             IN  /\ calls' = Append(calls, Call(p, "list", chaos_kind,
                                                outcome = "ok" /\ Served(chaos_kind) # {}))
                 /\ IF local[p].idx < Len(kinds_to_check)
                    THEN /\ local' = [local EXCEPT ![p].idx = @ + 1,
                                                   ![p].experiments = experiments]
                         /\ UNCHANGED <<pc, result>>
                    ELSE /\ result' = [result EXCEPT ![p] = Returned(experiments)]
                         /\ pc' = [pc EXCEPT ![p] = "done"]
                         /\ UNCHANGED local
       /\ UNCHANGED <<op, args, pods, chaos>>

(***************************************************************************)
(* The management operations over a cluster that holds experiments         *)
(***************************************************************************)
StatusSamples ==
    LET selected == [type |-> "Selected", status |-> "True", reason |-> "1"]
        injected == [type |-> "AllInjected", status |-> "True",
                     message |-> "Successfully injected chaos"]
    IN  {EmptyDict,
         [conditions |-> <<selected, injected>>],
         [conditions |-> <<selected, injected>>,
          experiment |-> [phase |-> "Finished", records |-> <<"record">>]]}

\* at most MaxHolders kinds hold a resource of the first experiment id
MaxHolders == 2

HolderSets == {H \in SUBSET Elems(CHAOS_KINDS) : Cardinality(H) <= MaxHolders}

Held(status) ==
    [paused |-> FALSE,
     spec |-> [action |-> "delay", mode |-> "all", duration |-> <<"6", "0", "s">>],
     status |-> status]

InitManage ==
    /\ pc = [p \in Procs |-> "idle"]
    /\ op = [p \in Procs |-> ""]
    /\ args = [p \in Procs |-> EmptyDict]
    /\ local = [p \in Procs |-> NoLocal]
    /\ result = [p \in Procs |-> NoResult]
    /\ calls = <<>>
    /\ pods = <<>>
    /\ \E H \in HolderSets, status \in StatusSamples, paused \in BOOLEAN :
          chaos = [k \in Elems(CHAOS_KINDS) |->
                      IF k \in H
                      THEN ExperimentIds[1] :> [Held(status) EXCEPT !.paused = paused]
                      ELSE EmptyDict]

NextManage ==
    \/ get_experiment_status(Caller)
    \/ list_active_experiments(Caller)
    \/ delete_experiment(Caller)
    \/ pause_experiment(Caller)
    \/ resume_experiment(Caller)
    \/ get_experiment_events(Caller)

SpecManage == InitManage /\ [][NextManage]_vars

(***************************************************************************)
(* A deletion and, after it, a status lookup or a listing; two deletions   *)
(* side by side                                                            *)
(***************************************************************************)
Other == CHOOSE p \in Procs : p # Caller

InitLifecycle ==
    /\ InitManage
    /\ \A k \in DOMAIN chaos : \A n \in DOMAIN chaos[k] : chaos[k][n] = Held(EmptyDict)

\* the second invocation is issued once the deletion has returned
NextLifecycle ==
    \/ delete_experiment(Caller)
    \/ /\ pc[Caller] = "done"
       /\ \/ get_experiment_status(Other)
          \/ list_active_experiments(Other)

SpecLifecycle == InitLifecycle /\ [][NextLifecycle]_vars

\* two deletions of the same experiment, interleaved at their commands
NextTwoDeletes ==
    \E p \in Procs :
        delete_experiment_with(p, {[experiment_id |-> ExperimentIds[1],
                                    namespace |-> "default"]})

\* the experiment the two deletions name is there at first
InitTwoDeletes ==
    /\ InitLifecycle
    /\ \E k \in DOMAIN chaos : Holds(k, ExperimentIds[1])

SpecTwoDeletes == InitTwoDeletes /\ [][NextTwoDeletes]_vars

(***************************************************************************)
(* tools/validation.py: the checks of the environment.  Here pods is the   *)
(* list of pods of the chaos-mesh namespace, each a name and a phase.       *)
(***************************************************************************)
\* pattern in text, for Python strings
RECURSIVE InStr(_, _)
InStr(pattern, text) ==
    IF Len(text) < Len(pattern) THEN FALSE
    ELSE IF SubSeq(text, 1, Len(pattern)) = pattern THEN TRUE
    ELSE InStr(pattern, SubSeq(text, 2, Len(text)))

check_kubectl_available(outcome) ==
    IF outcome = "ok"
    THEN [available |-> TRUE, version |-> Some("v1.29.0"), message |-> "kubectl is available"]
    ELSE [available |-> FALSE, version |-> None, message |-> "kubectl not available"]

check_cluster_connection(outcome) ==
    IF outcome = "ok"
    THEN [connected |-> TRUE, message |-> "Cluster is reachable"]
    ELSE [connected |-> FALSE, message |-> "Cannot connect to cluster"]

RunningPods(pod_items) == SelectSeq(pod_items, LAMBDA pod : pod.phase = "Running")

\* get namespace chaos-mesh, then get pods -n chaos-mesh
check_chaos_mesh_installed(namespace_outcome, pods_outcome) ==
    IF namespace_outcome = "ok" /\ pods_outcome = "ok"
    THEN [installed |-> TRUE, total_pods |-> Len(pods),
          running_pods |-> Len(RunningPods(pods)),
          pod_names |-> [i \in 1..Len(RunningPods(pods)) |-> RunningPods(pods)[i].name]]
    ELSE [installed |-> FALSE, total_pods |-> 0, running_pods |-> 0, pod_names |-> <<>>]

expected_crds ==
    <<"networkchaos.chaos-mesh.org", "podchaos.chaos-mesh.org",
      "stresschaos.chaos-mesh.org", "iochaos.chaos-mesh.org",
      "httpchaos.chaos-mesh.org", "dnschaos.chaos-mesh.org",
      "physicalmachinechaos.chaos-mesh.org">>

check_chaos_mesh_crds(installed_crds, outcome) ==
    LET found == IF outcome = "ok" THEN installed_crds ELSE {}
        missing_crds == SelectSeq(expected_crds, LAMBDA crd : crd \notin found)
    IN  [all_installed |-> Len(missing_crds) = 0,
         installed_count |-> Len(expected_crds) - Len(missing_crds),
         missing_crds |-> missing_crds]

required_components == <<"chaos-controller-manager", "chaos-daemon">>
optional_components == <<"chaos-dns-server", "chaos-dashboard">>

\* variant of ComponentStatus: a pod counts whatever its phase
ComponentStatusAnyPhase(component, type, pod_items) ==
    LET matching_pods == SelectSeq(pod_items, LAMBDA pod : InStr(component, pod.name))
    IN  [type |-> type, total |-> Len(matching_pods), running |-> Len(matching_pods),
         status |-> IF Len(matching_pods) > 0 THEN "OK"
                    ELSE IF type = "required" THEN "MISSING" ELSE "NOT_INSTALLED"]

\* the entry of component_status for one component
ComponentStatus(component, type, pod_items) ==
    LET matching_pods == SelectSeq(pod_items, LAMBDA pod : InStr(component, pod.name))
        running == Len(RunningPods(matching_pods))
    IN  [type |-> type, total |-> Len(matching_pods), running |-> running,
         status |-> IF running > 0 THEN "OK"
                    ELSE IF type = "required" THEN "MISSING" ELSE "NOT_INSTALLED"]

check_chaos_components(outcome) ==
    IF outcome = "ok"
    THEN LET component_status ==
                 [c \in Elems(required_components) \cup Elems(optional_components) |->
                     ComponentStatus(c, IF c \in Elems(required_components)
                                        THEN "required" ELSE "optional", pods)]
         IN  [all_required_ok |-> \A c \in Elems(required_components) :
                                      component_status[c].status = "OK",
              components |-> component_status]
    ELSE [all_required_ok |-> FALSE, components |-> EmptyDict]

\* the report of a check that failed among the first three
NotValid(results, message) ==
    Returned([valid |-> FALSE, checks |-> results, message |-> message])

CrdSamples ==
    {Elems(expected_crds), {}, Elems(expected_crds) \ {"dnschaos.chaos-mesh.org"}}

\* one check of validate_environment: its commands, then either the report
\* or the next check
Checked(p, commands, results, report, next) ==
    /\ calls' = calls \o commands
    /\ local' = [local EXCEPT ![p] = [results |-> results]]
    /\ IF next = "done"
       THEN result' = [result EXCEPT ![p] = report]
       ELSE UNCHANGED result
    /\ pc' = [pc EXCEPT ![p] = next]
    /\ UNCHANGED <<args, pods, chaos>>

validate_environment(p) ==
    \/ /\ pc[p] = "idle"
       /\ op' = [op EXCEPT ![p] = "validate_environment"]
       /\ \E outcome \in Outcomes :
             LET results == [kubectl |-> check_kubectl_available(outcome)]
             IN  Checked(p, <<Call(p, "version", "", outcome = "ok")>>, results,
                         NotValid(results, "kubectl is not available"),
                         IF results.kubectl.available THEN "cluster" ELSE "done")
    \/ /\ pc[p] = "cluster"
       /\ UNCHANGED op
       /\ \E outcome \in Outcomes :
             LET results == Put(local[p].results, "cluster",
                                check_cluster_connection(outcome))
             IN  Checked(p, <<Call(p, "cluster-info", "", outcome = "ok")>>, results,
                         NotValid(results, "Cannot connect to Kubernetes cluster"),
                         IF results.cluster.connected THEN "chaos_mesh" ELSE "done")
    \/ /\ pc[p] = "chaos_mesh"
       /\ UNCHANGED op
       /\ \E namespace_outcome \in Outcomes, pods_outcome \in Outcomes :
             LET results == Put(local[p].results, "chaos_mesh",
                                check_chaos_mesh_installed(namespace_outcome, pods_outcome))
                 commands == <<Call(p, "get namespace", "chaos-mesh",
                                    namespace_outcome = "ok")>> \o
                             IF namespace_outcome = "ok"
                             THEN <<Call(p, "get pods", "chaos-mesh", pods_outcome = "ok")>>
                             ELSE <<>>
             IN  Checked(p, commands, results,
                         NotValid(results, "Chaos Mesh is not installed"),
                         IF results.chaos_mesh.installed THEN "crds" ELSE "done")
    \/ /\ pc[p] = "crds"
       /\ UNCHANGED op
       /\ \E outcome \in Outcomes, installed_crds \in CrdSamples :
             LET results == Put(local[p].results, "crds",
                                check_chaos_mesh_crds(installed_crds, outcome))
             IN  Checked(p, <<Call(p, "get crd", "", outcome = "ok")>>, results,
                         NoResult, "components")
    \/ /\ pc[p] = "components"
       /\ UNCHANGED op
       /\ \E outcome \in Outcomes :
             LET results == Put(local[p].results, "components",
                                check_chaos_components(outcome))
                 all_valid == /\ results.kubectl.available
                              /\ results.cluster.connected
                              /\ results.chaos_mesh.installed
                              /\ results.components.all_required_ok
                 dns_server_ok ==
                     Get(Get(results.components.components, "chaos-dns-server", EmptyDict),
                         "status", "") = "OK"
                 warnings ==
                     (IF ~results.crds.all_installed THEN <<"Missing CRDs">> ELSE <<>>) \o
                     (IF ~dns_server_ok THEN <<"chaos-dns-server not running">> ELSE <<>>)
             IN  Checked(p, <<Call(p, "get pods", "chaos-mesh", outcome = "ok")>>, results,
                         Returned([valid |-> all_valid, checks |-> results,
                                   warnings |-> warnings,
                                   message |-> IF all_valid
                                               THEN "Environment is ready for Chaos Mesh"
                                               ELSE "Environment validation failed"]),
                         "done")

ChaosMeshPods ==
    LET pod(name, phase) == [name |-> name, phase |-> phase]
        manager == "chaos-controller-manager-7b8f9c-x2x"
        daemon == "chaos-daemon-5kq7p"
        dns == "chaos-dns-server-6d4f5-abc"
    IN  {<<>>,
         <<pod(manager, "Running"), pod(daemon, "Running")>>,
         <<pod(manager, "Running"), pod(daemon, "Running"), pod(dns, "Running")>>,
         <<pod(manager, "Running"), pod(daemon, "Pending")>>,
         <<pod(manager, "Running"), pod(daemon, "Pending"), pod(daemon, "Running")>>,
         <<pod(manager, "Running")>>,
         <<pod(daemon, "Running"), pod(dns, "Running")>>,
         <<pod(manager, "Failed"), pod(daemon, "Running"), pod(dns, "Pending")>>}

InitEnvironment ==
    /\ pc = [p \in Procs |-> "idle"]
    /\ op = [p \in Procs |-> ""]
    /\ args = [p \in Procs |-> EmptyDict]
    /\ local = [p \in Procs |-> NoLocal]
    /\ result = [p \in Procs |-> NoResult]
    /\ calls = <<>>
    /\ pods \in ChaosMeshPods
    /\ chaos = NoChaos

NextEnvironment == validate_environment(Caller)

SpecEnvironment == InitEnvironment /\ [][NextEnvironment]_vars

(***************************************************************************)
(* The validators on their own, over every string of at most MaxLen        *)
(* characters of Alphabet                                                  *)
(***************************************************************************)
MaxLen == 4

Alphabet == {"1", "6", "B", "K", "M", "G", "T", "b", "g", "\n"}

Strings == UNION {[1..n -> Alphabet] : n \in 0..MaxLen}

\* a validator returns None or raises e
Validated(p, o, e) ==
    /\ pc[p] = "idle"
    /\ op' = [op EXCEPT ![p] = o]
    /\ result' = [result EXCEPT ![p] = IF IsError(e) THEN Raised(e) ELSE Returned(None)]
    /\ pc' = [pc EXCEPT ![p] = "done"]
    /\ UNCHANGED <<args, local, calls, pods, chaos>>

InitValidate ==
    /\ pc = [p \in Procs |-> "idle"]
    /\ op = [p \in Procs |-> ""]
    /\ \E value \in Strings :
          args = [p \in Procs |-> IF p = Caller THEN [value |-> value] ELSE EmptyDict]
    /\ local = [p \in Procs |-> NoLocal]
    /\ result = [p \in Procs |-> NoResult]
    /\ calls = <<>>
    /\ pods = <<>>
    /\ chaos = NoChaos

NextValidate ==
    \/ Validated(Caller, "validate_memory_size", validate_memory_size(args[Caller].value))

SpecValidate == InitValidate /\ [][NextValidate]_vars

(***************************************************************************)
(* The pure functions on their own: the validators over every string of at *)
(* most MaxLen characters of an alphabet of their own, validate_mode over  *)
(* ModeInputs, validate_labels over LabelInputs and interpret_chaos_status *)
(* over ChaosObjects                                                       *)
(***************************************************************************)
\* the strings of at most n characters of A
StringsOver(A, n) == UNION {[1..m -> A] : m \in 0..n}

DurationAlphabet == {"0", "1", "m", "s", "h", ".", "\n"}
PercentAlphabet == {"0", "1", "5", ".", "-", "+", "n", "a"}
LabelAlphabet == {"a", "1", "-", ".", "A", "\n"}

ModeInputs ==
    {"one", "all", "fixed", "fixed-percent", "random-max-percent",
     "", "One", "ALL", "Fixed", "fixed_percent", "fixed-percent ", "random-max",
     "random-max-percent\n", "every", "two"}

LabelValues == {"mongodb", ""}

\* the empty map, the maps of one key of at most n characters, and the maps
\* of such a key before or after a well-formed one
LabelInputs(n) ==
    LET keys == StringsOver(LabelAlphabet, n)
        app  == <<"a", "p", "p">>
    IN  {<<>>}
        \cup {<< <<k, v>> >> : k \in keys, v \in LabelValues}
        \cup {<< <<app, "mongodb">>, <<k, v>> >> : k \in keys, v \in LabelValues}
        \cup {<< <<k, v>>, <<app, "mongodb">> >> : k \in keys, v \in LabelValues}

\* at most MaxConditions conditions in status.conditions
MaxConditions == 2

ConditionSamples ==
    {[type |-> "AllInjected", status |-> "True", message |-> "injected"],
     [type |-> "AllInjected", status |-> "False", message |-> "not injected"],
     [type |-> "AllInjected"],
     [type |-> "Selected", status |-> "True", reason |-> "2"],
     [type |-> "Selected", status |-> "False"],
     [type |-> "Paused", status |-> "True"]}

ExperimentSamples ==
    {[phase |-> "Finished", records |-> <<"record">>],
     [phase |-> "Running"],
     [records |-> <<"record">>]}

\* a document without status, with an empty status, and with at most n
\* conditions, experiment, or both
ChaosObjects(n) ==
    LET lists == UNION {[1..m -> ConditionSamples] : m \in 0..n}
        metadata == [name |-> ExperimentIds[1]]
    IN  {[metadata |-> metadata], [metadata |-> metadata, status |-> EmptyDict]}
        \cup {[metadata |-> metadata, status |-> [conditions |-> c]] : c \in lists}
        \cup {[metadata |-> metadata, status |-> [experiment |-> e]] :
                 e \in ExperimentSamples}
        \cup {[metadata |-> metadata, status |-> [conditions |-> c, experiment |-> e]] :
                 c \in lists, e \in ExperimentSamples}

FunctionInputs(len, conditions) ==
    {[duration |-> s] : s \in StringsOver(DurationAlphabet, len)}
    \cup {[value |-> s] : s \in StringsOver(PercentAlphabet, len)}
    \cup {[mode |-> m] : m \in ModeInputs}
    \cup {[labels |-> l] : l \in LabelInputs(len)}
    \cup {[chaos_obj |-> d] : d \in ChaosObjects(conditions)}

InitFunctions ==
    /\ pc = [p \in Procs |-> "idle"]
    /\ op = [p \in Procs |-> ""]
    /\ \E a \in FunctionInputs(MaxLen, MaxConditions) :
          args = [p \in Procs |-> IF p = Caller THEN a ELSE EmptyDict]
    /\ local = [p \in Procs |-> NoLocal]
    /\ result = [p \in Procs |-> NoResult]
    /\ calls = <<>>
    /\ pods = <<>>
    /\ chaos = NoChaos

ValidateDuration(p) ==
    /\ "duration" \in DOMAIN args[p]
    /\ Validated(p, "validate_duration", validate_duration(args[p].duration))

ValidatePercentage(p) ==
    /\ "value" \in DOMAIN args[p]
    /\ Validated(p, "validate_percentage", validate_percentage(args[p].value))

ValidateMode(p) ==
    /\ "mode" \in DOMAIN args[p]
    /\ Validated(p, "validate_mode", validate_mode(args[p].mode))

ValidateLabels(p) ==
    /\ "labels" \in DOMAIN args[p]
    /\ Validated(p, "validate_labels", validate_labels(args[p].labels))

InterpretChaosStatus(p) ==
    /\ "chaos_obj" \in DOMAIN args[p]
    /\ pc[p] = "idle"
    /\ op' = [op EXCEPT ![p] = "interpret_chaos_status"]
    /\ result' = [result EXCEPT ![p] = Returned(interpret_chaos_status(args[p].chaos_obj))]
    /\ pc' = [pc EXCEPT ![p] = "done"]
    /\ UNCHANGED <<args, local, calls, pods, chaos>>

NextFunctions ==
    \/ ValidateDuration(Caller)
    \/ ValidatePercentage(Caller)
    \/ ValidateMode(Caller)
    \/ ValidateLabels(Caller)
    \/ InterpretChaosStatus(Caller)

SpecFunctions == InitFunctions /\ [][NextFunctions]_vars

(***************************************************************************)
(* Properties                                                              *)
(***************************************************************************)
CallsBy(p) == SelectSeq(calls, LAMBDA c : c.proc = p)

Applies(p) == {i \in DOMAIN calls : calls[i].proc = p /\ calls[i].call = "apply"}

\* an error raised by the validation of the arguments
IsValidationFailure(e) ==
    \/ e.exc = "ValidationError"
    \/ e.exc = "ValueError" /\ e.what \notin {"no_pods", "not_found"}

\* C1: a creation operation that fails with an input-validation error has
\* issued no collaborator call; a pod-targeted operation issues a call only
\* with well-formed labels, duration and mode, a machine-targeted one only
\* with exactly one of address and selector; create_pod_kill with
\* grace_period < 0 and otherwise valid arguments raises the grace-period
\* error and issues no call.
C1_ValidationBeforeCalls ==
    \A p \in Procs :
        /\ (op[p] \in CreationOps /\ result[p].status = "raised"
                /\ IsValidationFailure(result[p].err))
              => CallsBy(p) = <<>>
        /\ (op[p] \in PodOps /\ CallsBy(p) # <<>>)
              => /\ validate_labels(args[p].target_labels) = OK
                 /\ validate_duration(args[p].duration) = OK
                 /\ validate_mode(args[p].mode) = OK
        /\ (op[p] \in MachineOps /\ CallsBy(p) # <<>>)
              => validate_targeting(args[p]) = OK
        /\ (op[p] = "create_pod_kill" /\ args[p].grace_period < 0
                /\ validate_labels(args[p].target_labels) = OK
                /\ validate_duration(args[p].duration) = OK
                /\ validate_mode(args[p].mode) = OK)
              => /\ result[p] = Raised(ValueError("grace_period"))
                 /\ CallsBy(p) = <<>>

C1_Witness ==
    \E p \in Procs :
        /\ op[p] = "create_pod_kill"
        /\ args[p].grace_period < 0
        /\ result[p] = Raised(ValueError("grace_period"))
        /\ calls = <<>>

\* C2: in a pod-targeted creation operation, apply is called only after a
\* target-existence check that found at least one pod; when the check finds
\* no pod the operation raises "No pods found" and never calls apply.
C2_ApplyOnlyAfterPodsFound ==
    \A p \in Procs :
        op[p] \in PodOps =>
            LET mine == CallsBy(p)
                checked == \E i \in DOMAIN mine : mine[i].call = "list_pods"
            IN  /\ \A i \in DOMAIN mine :
                       mine[i].call = "apply"
                          => /\ \E j \in 1..(i - 1) : mine[j].call = "list_pods"
                             /\ local[p].target_check.count >= 1
                /\ (checked /\ local[p].target_check.count = 0)
                      => /\ result[p] = Raised(ValueError("no_pods"))
                         /\ \A i \in DOMAIN mine : mine[i].call # "apply"

C2_Witness ==
    \E p \in Procs :
        /\ op[p] \in PodOps
        /\ pods = <<>>
        /\ CallsBy(p) = <<Call(p, "list_pods", args[p].target_labels, TRUE)>>
        /\ result[p] = Raised(ValueError("no_pods"))

\* C3: a machine-targeted operation given both a non-empty address and a
\* non-empty selector, or neither, raises an error and submits no manifest.
C3_BothOrNeitherIsRejected ==
    \A p \in Procs :
        op[p] \in MachineOps =>
            LET both == Truthy(args[p].address) /\ Truthy(args[p].selector)
                neither == ~Truthy(args[p].address) /\ ~Truthy(args[p].selector)
            IN  /\ both => result[p] = Raised(ValueError("address_and_selector"))
                /\ neither => result[p] = Raised(ValueError("address_or_selector"))
                /\ (both \/ neither) => Applies(p) = {}

C3_Witness ==
    \E p \in Procs :
        /\ op[p] = "create_physical_clock_skew"
        /\ Truthy(args[p].address) /\ Truthy(args[p].selector)
        /\ pc[p] = "done"
        /\ result[p].status = "raised"
        /\ calls = <<>>

\* C4: in every creation operation, the five create_physical_* operations
\* included, a duration outside the duration grammar or a mode outside the
\* five modes makes the call fail, and no manifest is submitted.
C4_DurationAndModeAlwaysValidated ==
    \A p \in Procs :
        (op[p] \in CreationOps
            /\ (validate_duration(args[p].duration) # OK \/ validate_mode(args[p].mode) # OK))
          => /\ Applies(p) = {}
             /\ pc[p] = "done" => result[p].status = "raised"

\* the suffixes the memory-size grammar names
NamedMemoryUnits == {<<"B">>, <<"K", "B">>, <<"M", "B">>, <<"G", "B">>}

\* C5: validate_memory_size returns normally for exactly the strings of one
\* or more digits followed by B, KB, MB or GB in any letter case, and raises
\* ValidationError for every other string, a TB suffix and a bare number
\* among them.
C5_MemorySizeGrammar ==
    \A p \in Procs :
        (op[p] = "validate_memory_size" /\ pc[p] = "done")
          => IF DigitsThenUnit(args[p].value, NamedMemoryUnits, TRUE)
             THEN result[p].status = "returned"
             ELSE result[p].status = "raised" /\ result[p].err.exc = "ValidationError"

\* C6: every PhysicalMachineChaos manifest a create_physical_* operation
\* submits has exactly one of spec.address and spec.selector, and its
\* selector is no pod selector (no namespaces key); render_physical_chaos
\* called on its own never emits both keys.
C6_ExactlyOneMachineTarget ==
    /\ \A i \in DOMAIN calls :
          (calls[i].call = "apply" /\ op[calls[i].proc] \in MachineOps)
            => LET spec == calls[i].target.spec
               IN  /\ calls[i].target.kind = "PhysicalMachineChaos"
                   /\ ("address" \in DOMAIN spec) # ("selector" \in DOMAIN spec)
                   /\ "selector" \in DOMAIN spec
                         => "namespaces" \notin DOMAIN spec.selector
    /\ \A p \in Procs :
          (op[p] = "render_physical_chaos" /\ result[p].status = "returned")
            => ~({"address", "selector"} \subseteq DOMAIN result[p].value.spec)

C6_Witness ==
    \E i \in DOMAIN calls :
        /\ calls[i].call = "apply"
        /\ calls[i].ok
        /\ op[calls[i].proc] \in MachineOps
        /\ "selector" \in DOMAIN calls[i].target.spec
        /\ "address" \notin DOMAIN calls[i].target.spec
        /\ Holds("PhysicalMachineChaos", calls[i].target.metadata.name)

\* C7: in every submitted manifest the optional top-level spec fields
\* externalTargets, method, path (of HTTPChaos), methods, request_headers
\* and patterns appear only when the caller supplied a value, and never
\* with a null or empty value.
C7_OptionalFieldsOnlyWhenSupplied ==
    \A i \in DOMAIN calls :
        calls[i].call = "apply"
          => LET spec == calls[i].target.spec
                 kind == calls[i].target.kind
                 a == args[calls[i].proc]
             IN  /\ "externalTargets" \in DOMAIN spec
                       => Truthy(a.external_targets) /\ Truthy(Some(spec.externalTargets))
                 /\ (kind = "HTTPChaos" /\ "method" \in DOMAIN spec)
                       => Truthy(a.method) /\ Truthy(Some(spec.method))
                 /\ (kind = "HTTPChaos" /\ "path" \in DOMAIN spec)
                       => Truthy(a.path) /\ Truthy(Some(spec.path))
                 /\ (kind = "HTTPChaos" /\ "request_headers" \in DOMAIN spec)
                       => Truthy(a.request_headers) /\ Truthy(Some(spec.request_headers))
                 /\ (kind = "IOChaos" /\ "methods" \in DOMAIN spec)
                       => Truthy(a.methods) /\ Truthy(Some(spec.methods))
                 /\ (kind = "DNSChaos" /\ "patterns" \in DOMAIN spec)
                       => Truthy(a.patterns) /\ Truthy(Some(spec.patterns))

\* the order in which the kinds are to be probed
DetectionOrder == <<"NetworkChaos", "StressChaos", "PodChaos", "IOChaos", "HTTPChaos",
                    "DNSChaos", "PhysicalMachineChaos", "TimeChaos", "KernelChaos">>

\* the get-by-name probes of invocation p, in the order issued
Probes(p) == SelectSeq(calls, LAMBDA c : c.proc = p /\ c.call = "get")

\* no kind among the first n of the order holds the name
NoneOfFirst(n, name) == \A i \in 1..n : ~Holds(DetectionOrder[i], name)

C9_NotFoundAfterNineProbes ==
    \A p \in Procs :
        (op[p] = "get_experiment_status" /\ pc[p] = "done"
            /\ NoneOfFirst(Len(DetectionOrder), args[p].experiment_id))
          => /\ result[p] = Raised([ValueError("not_found") EXCEPT
                                        !.checked = DetectionOrder])
             /\ Len(Probes(p)) = Len(DetectionOrder)
             /\ \A i \in DOMAIN DetectionOrder :
                    Probes(p)[i] = Call(p, "get",
                        Target(DetectionOrder[i], args[p].experiment_id), FALSE)

C9_Witness ==
    \E p \in Procs :
        /\ op[p] = "get_experiment_status"
        /\ result[p].status = "raised"
        /\ result[p].err.checked = DetectionOrder
        /\ Len(calls) = Len(DetectionOrder)
        /\ \A i \in DOMAIN calls : calls[i].call = "get" /\ ~calls[i].ok

\* the collaborator calls an operation depends on
DependedOn == {"list_pods", "apply", "delete", "annotate", "events"}

\* C10: outside list_active_experiments, an operation whose pod listing,
\* apply, delete, annotate or events query has failed ends by raising an
\* error that carries the collaborator's diagnostic, and has not issued the
\* failed call again.
C10_FailuresAreRaised ==
    \A p \in Procs :
        (op[p] # "list_active_experiments" /\ pc[p] = "done")
          => \A i \in DOMAIN calls :
                (calls[i].proc = p /\ calls[i].call \in DependedOn /\ ~calls[i].ok)
                  => /\ result[p].status = "raised"
                     /\ result[p].err.diag = calls[i].diag
                     /\ \A j \in DOMAIN calls :
                            (j > i /\ calls[j].proc = p) => calls[j].call # calls[i].call

\* the phase of a document under the three-phase reading
PhaseOf(doc) ==
    LET status == IF "status" \in DOMAIN doc THEN doc.status ELSE EmptyDict
        conditions == IF "conditions" \in DOMAIN status THEN status.conditions ELSE <<>>
    IN  IF /\ "experiment" \in DOMAIN status
           /\ "phase" \in DOMAIN status.experiment
           /\ status.experiment.phase = "Finished"
        THEN "Finished"
        ELSE IF \E i \in DOMAIN conditions :
                   /\ conditions[i].type = "AllInjected"
                   /\ "status" \in DOMAIN conditions[i]
                   /\ conditions[i].status = "True"
        THEN "Running"
        ELSE "Pending"

\* C13: interpret_chaos_status gives every document exactly one phase:
\* Finished when status.experiment.phase is Finished, whatever the
\* conditions; otherwise Running when some condition is AllInjected with
\* status True; otherwise Pending, also without status or conditions.
C13_ThreePhases ==
    \A p \in Procs :
        (op[p] = "interpret_chaos_status" /\ pc[p] = "done")
          => /\ result[p].status = "returned"
             /\ result[p].value.phase \in {"Pending", "Running", "Finished"}
             /\ result[p].value.phase = PhaseOf(args[p].chaos_obj)

\* a finished experiment whose conditions say AllInjected
C13_Witness ==
    \E p \in Procs :
        /\ op[p] = "interpret_chaos_status" /\ pc[p] = "done"
        /\ "status" \in DOMAIN args[p].chaos_obj
        /\ "conditions" \in DOMAIN args[p].chaos_obj.status
        /\ \E i \in DOMAIN args[p].chaos_obj.status.conditions :
              args[p].chaos_obj.status.conditions[i] =
                  [type |-> "AllInjected", status |-> "True", message |-> "injected"]
        /\ result[p].value.phase = "Finished"

\* C17: validate_duration returns normally for exactly the strings of one
\* or more digits followed by one of ms, s, m, h and nothing else, and
\* raises ValidationError for every other string.
C17_DurationGrammar ==
    \A p \in Procs :
        (op[p] = "validate_duration" /\ pc[p] = "done")
          => IF DigitsThenUnit(args[p].duration, DurationUnits, FALSE)
             THEN result[p].status = "returned"
             ELSE result[p].status = "raised" /\ result[p].err.exc = "ValidationError"

\* segments of lowercase letters and digits separated by '.' or '-', with
\* no separator first or last
LabelKeyGrammar(k) ==
    /\ Len(k) > 0
    /\ \A i \in 1..Len(k) : k[i] \in LowerAlnum \cup {".", "-"}
    /\ k[1] \in LowerAlnum
    /\ k[Len(k)] \in LowerAlnum
    /\ \A i \in 1..(Len(k) - 1) : k[i] \in LowerAlnum \/ k[i + 1] \in LowerAlnum

\* C18: validate_labels raises ValidationError for the empty map and for a
\* map with a key outside the label-key grammar, and returns normally for
\* every non-empty map whose keys are all in it, whatever the values.
C18_LabelGrammar ==
    \A p \in Procs :
        (op[p] = "validate_labels" /\ pc[p] = "done")
          => IF /\ Len(args[p].labels) > 0
                /\ \A i \in 1..Len(args[p].labels) : LabelKeyGrammar(args[p].labels[i][1])
             THEN result[p].status = "returned"
             ELSE result[p].status = "raised" /\ result[p].err.exc = "ValidationError"

\* C19: validate_percentage returns normally for every numeric string whose
\* value is in [0, 100], bounds and fractions included, and raises
\* ValidationError for every string below 0, above 100 or not numeric.
C19_PercentageRange ==
    \A p \in Procs :
        (op[p] = "validate_percentage" /\ pc[p] = "done")
          => LET f == ParseFloat(args[p].value)
                 numeric == f.ok /\ ~f.nan
                 below == numeric /\ f.neg /\ (f.inf \/ f.mant > 0)
                 above == numeric /\ ~f.neg /\ (f.inf \/ f.mant > 100 * Pow10(f.scale))
             IN  IF numeric /\ ~below /\ ~above
                 THEN result[p].status = "returned"
                 ELSE result[p].status = "raised" /\ result[p].err.exc = "ValidationError"

\* '50.5' is accepted
C19_Witness ==
    \E p \in Procs :
        /\ op[p] = "validate_percentage" /\ pc[p] = "done"
        /\ args[p].value = <<"5", "0", ".", "5">>
        /\ result[p].status = "returned"

\* C20: validate_mode returns normally exactly for one, all, fixed,
\* fixed-percent and random-max-percent, spelled so, and raises
\* ValidationError for every other string.
C20_FiveModes ==
    \A p \in Procs :
        (op[p] = "validate_mode" /\ pc[p] = "done")
          => IF args[p].mode \in {"one", "all", "fixed", "fixed-percent", "random-max-percent"}
             THEN result[p].status = "returned"
             ELSE result[p].status = "raised" /\ result[p].err.exc = "ValidationError"

\* random-max-percent is accepted
C20_Witness ==
    \E p \in Procs :
        /\ op[p] = "validate_mode" /\ pc[p] = "done"
        /\ args[p].mode = "random-max-percent"
        /\ result[p].status = "returned"

\* the list commands of p's invocation, in the order they were issued
Listings(p) == SelectSeq(calls, LAMBDA c : c.proc = p /\ c.call = "list")

\* the summaries a sequence of listings gives: one per resource of each kind
\* whose listing succeeded
RECURSIVE Listed(_)
Listed(listings) ==
    IF listings = <<>> THEN <<>>
    ELSE LET kind == Head(listings).target
             names == IF Head(listings).ok
                      THEN SeqOf(DOMAIN chaos[CHOOSE k \in Served(kind) : TRUE])
                      ELSE <<>>
         IN  [i \in 1..Len(names) |-> <<kind, names[i]>>] \o Listed(Tail(listings))

\* C11: list_active_experiments lists every kind of the detection order
\* once and in that order, or only the kind given; it returns, in that
\* order, one summary per resource of each kind whose listing succeeded; a
\* listing that fails adds nothing and neither fails the call nor drops the
\* summaries of the other kinds.
C11_ListSkipsFailedKinds ==
    \A p \in Procs :
        (op[p] = "list_active_experiments" /\ pc[p] = "done")
          => LET kinds == IF IsNone(args[p].kind) THEN DetectionOrder ELSE args[p].kind
                 listings == Listings(p)
                 value == result[p].value
             IN  /\ result[p].status = "returned"
                 /\ [i \in 1..Len(listings) |-> listings[i].target] = kinds
                 /\ [i \in 1..Len(value) |-> <<value[i].kind, value[i].experiment_id>>]
                       = Listed(listings)

\* the listing of a kind that holds an experiment failed, and the result
\* has the experiment of another kind
C11_Witness ==
    \E p \in Procs :
        /\ op[p] = "list_active_experiments" /\ pc[p] = "done"
        /\ IsNone(args[p].kind)
        /\ \E i \in DOMAIN calls :
              /\ calls[i].proc = p /\ calls[i].call = "list" /\ ~calls[i].ok
              /\ chaos[calls[i].target] # EmptyDict
        /\ result[p].status = "returned"
        /\ Len(result[p].value) = 1

\* the annotate commands of p's invocation
Annotations(p) == SelectSeq(calls, LAMBDA c : c.proc = p /\ c.call = "annotate")

Positions(p, call) == {i \in DOMAIN calls : calls[i].proc = p /\ calls[i].call = call}

\* C16: a pod-targeted creation operation that returns has issued exactly
\* one pod listing, before its one apply, and none after; affected_pods is
\* the names that listing returned, in its order, though the pods have
\* changed since; experiment_id, kind and namespace are the applied
\* manifest's metadata.name, kind and metadata.namespace; create_network_delay
\* reports its default for a parameter the arguments omit (direction 'to',
\* jitter '0ms', correlation '0').
C16_ResultEchoesCheckAndManifest ==
    \A p \in Procs :
        (op[p] \in PodOps /\ pc[p] = "done" /\ result[p].status = "returned")
          => LET value == result[p].value
                 found == local[p].target_check.pods
             IN  /\ Cardinality(Positions(p, "list_pods")) = 1
                 /\ Cardinality(Positions(p, "apply")) = 1
                 /\ \A i \in Positions(p, "list_pods"), j \in Positions(p, "apply") : i < j
                 /\ Len(found) >= 1
                 /\ value.affected_pods = [i \in 1..Len(found) |-> found[i].name]
                 /\ \A j \in Positions(p, "apply") :
                       /\ value.experiment_id = calls[j].target.metadata.name
                       /\ value.kind = calls[j].target.kind
                       /\ value.namespace = calls[j].target.metadata.namespace
                 /\ op[p] = "create_network_delay"
                       => /\ "direction" \notin args[p].supplied
                               => value.parameters.direction = "to"
                          /\ "jitter" \notin args[p].supplied
                               => value.parameters.jitter = <<"0", "m", "s">>
                          /\ "correlation" \notin args[p].supplied
                               => value.parameters.correlation = <<"0">>

\* create_network_delay called without direction has returned the pods of
\* its check, and the pods are others by now
C16_Witness ==
    \E p \in Procs :
        /\ op[p] = "create_network_delay" /\ pc[p] = "done"
        /\ result[p].status = "returned"
        /\ "direction" \notin args[p].supplied
        /\ result[p].value.affected_pods # pods
        /\ Len(result[p].value.affected_pods) = 2

HexDigits == {"0", "1", "2", "3", "4", "5", "6", "7", "8", "9", "a", "b", "c", "d", "e", "f"}

\* '<prefix>-<8 characters of 0-9a-f>'
IsGeneratedName(n) ==
    /\ Len(n) > 9
    /\ SubSeq(n, Len(n) - 8, Len(n) - 8) = "-"
    /\ \A i \in (Len(n) - 7)..Len(n) : SubSeq(n, i, i) \in HexDigits

\* C15: a creation operation names its experiment '<prefix>-<8 characters
\* of 0-9a-f>' and issues no get or list of chaos resources; once it has its
\* name it submits the manifest under that name, whether or not the cluster
\* holds a resource of that name already, and when the apply succeeds it
\* returns that name as experiment_id.
C15_NoUniquenessCheck ==
    \A p \in Procs :
        op[p] \in CreationOps
          => /\ Positions(p, "get") = {}
             /\ Positions(p, "list") = {}
             /\ local[p].name # "" => IsGeneratedName(local[p].name)
             /\ (local[p].name # "" /\ pc[p] = "done")
                  => /\ Cardinality(Positions(p, "apply")) = 1
                     /\ \A j \in Positions(p, "apply") :
                           /\ calls[j].target.metadata.name = local[p].name
                           /\ calls[j].ok
                                => /\ result[p].status = "returned"
                                   /\ result[p].value.experiment_id = local[p].name
                                   /\ Holds(calls[j].target.kind, local[p].name)

\* an operation has returned a name the cluster held before the call: the
\* kind holds the names the cluster started with
C15_Witness ==
    \E p \in Procs :
        /\ op[p] = "create_physical_stress_cpu" /\ pc[p] = "done"
        /\ result[p].status = "returned"
        /\ result[p].value.experiment_id \in DOMAIN HeldAlready["PhysicalMachineChaos"]
        /\ DOMAIN chaos["PhysicalMachineChaos"] = DOMAIN HeldAlready["PhysicalMachineChaos"]

\* the manifest an invocation renders when it runs alone with p's arguments
\* and p's name
ManifestAlone(p) ==
    LET a == args[p]
        name == local[p].name
    IN  IF op[p] = "create_network_delay"
        THEN render_network_chaos(name, a.namespace, "delay", a.target_labels, a.duration,
                 a.mode, [latency |-> a.latency, jitter |-> a.jitter,
                          correlation |-> a.correlation, direction |-> a.direction,
                          external_targets |-> a.external_targets])
        ELSE render_physical_chaos(name, a.namespace, "stress-cpu", a.duration, a.mode,
                 a.address, a.selector,
                 IF IsNone(a.load) THEN [workers |-> a.workers]
                 ELSE [workers |-> a.workers, load |-> a.load[1]])

\* the result it returns alone, given the pods its own check found
ResultAlone(p) ==
    LET a == args[p]
        name == local[p].name
        found == local[p].target_check.pods
    IN  IF op[p] = "create_network_delay"
        THEN [experiment_id |-> name, kind |-> "NetworkChaos", action |-> "delay",
              namespace |-> a.namespace,
              affected_pods |-> [i \in 1..Len(found) |-> found[i].name],
              parameters |-> [latency |-> a.latency, jitter |-> a.jitter,
                              correlation |-> a.correlation, direction |-> a.direction],
              duration |-> a.duration]
        ELSE [experiment_id |-> name, kind |-> "PhysicalMachineChaos",
              action |-> "stress-cpu", namespace |-> a.namespace,
              target_mode |-> TargetMode(a), targets |-> Targets(a),
              parameters |-> [duration |-> a.duration, mode |-> a.mode,
                              workers |-> a.workers, load |-> a.load],
              status |-> [status |-> "applied", output |-> "configured"]]

\* C14: whatever the other invocation does between its collaborator calls,
\* an invocation submits the manifest and returns the result it would have
\* alone, given its own arguments, its own name and the responses to its own
\* collaborator calls; an invocation that raises has submitted nothing, or
\* its own manifest in an apply that failed.
C14_InterleavingIsAlone ==
    \A p \in Procs :
        (op[p] \in {"create_network_delay", "create_physical_stress_cpu"} /\ pc[p] = "done")
          => /\ \A j \in Positions(p, "apply") : calls[j].target = ManifestAlone(p)
             /\ result[p].status = "returned"
                  => /\ \E j \in Positions(p, "apply") : calls[j].ok
                     /\ result[p].value = ResultAlone(p)
             /\ result[p].status = "raised"
                  => \A j \in Positions(p, "apply") : ~calls[j].ok

\* two invocations with different names have both returned, and the second
\* issued a collaborator call between two of the first
C14_Witness ==
    \E p, q \in Procs :
        /\ p # q
        /\ pc[p] = "done" /\ pc[q] = "done"
        /\ result[p].status = "returned" /\ result[q].status = "returned"
        /\ result[p].value.experiment_id # result[q].value.experiment_id
        /\ op[p] = "create_network_delay"
        /\ \E i, j, k \in DOMAIN calls :
              /\ i < j /\ j < k
              /\ calls[i].proc = p /\ calls[j].proc = q /\ calls[k].proc = p

RenderOps == {"render_network_chaos", "render_stress_chaos", "render_pod_chaos",
              "render_io_chaos", "render_http_chaos", "render_dns_chaos",
              "render_physical_chaos"}

\* C21: every manifest one of the seven render functions returns has
\* apiVersion, kind, metadata.name, metadata.namespace, spec.mode and
\* spec.duration, and every manifest but a PhysicalMachineChaos one has
\* spec.selector with namespaces = [namespace] and labelSelectors =
\* target_labels.
C21_RequiredKeys ==
    \A p \in Procs :
        (op[p] \in RenderOps /\ pc[p] = "done" /\ result[p].status = "returned")
          => LET m == result[p].value
                 a == args[p]
             IN  /\ {"apiVersion", "kind", "metadata", "spec"} \subseteq DOMAIN m
                 /\ {"name", "namespace"} \subseteq DOMAIN m.metadata
                 /\ {"mode", "duration"} \subseteq DOMAIN m.spec
                 /\ m.metadata.namespace = a.namespace
                 /\ m.spec.mode = a.mode /\ m.spec.duration = a.duration
                 /\ op[p] # "render_physical_chaos"
                      => /\ m.metadata.name = a.name
                         /\ "selector" \in DOMAIN m.spec
                         /\ m.spec.selector = [namespaces |-> <<a.namespace>>,
                                               labelSelectors |-> a.target_labels]

\* render_http_chaos has returned a manifest for another namespace and an
\* empty label map
C21_Witness ==
    \E p \in Procs :
        /\ op[p] = "render_http_chaos" /\ pc[p] = "done"
        /\ result[p].status = "returned"
        /\ args[p].namespace = "chaos-testing"
        /\ args[p].target_labels = <<>>
        /\ result[p].value.spec.selector.namespaces = <<"chaos-testing">>

RecognizedActions ==
    [render_network_chaos  |-> {"delay", "loss", "corrupt", "partition"},
     render_io_chaos       |-> {"latency", "fault", "attrOverride", "mistake"},
     render_physical_chaos |-> {"stress-cpu", "stress-mem", "disk-fill", "process", "clock"}]

\* the keys of spec that only a branch on the action sets
ActionBlocks ==
    [render_network_chaos  |-> {"delay", "loss", "corrupt", "target"},
     render_io_chaos       |-> {"delay", "errno", "attr", "mistake"},
     render_physical_chaos |-> {"stress-cpu", "stress-mem", "disk-fill", "process", "clock"}]

\* C25: render_network_chaos, render_io_chaos and render_physical_chaos given
\* an action outside their recognized ones do not fail: the manifest
\* returned carries spec.action as given, keeps the skeleton and has no
\* action-specific block.
C25_UnrecognizedActionIsKept ==
    \A p \in Procs :
        (/\ op[p] \in DOMAIN RecognizedActions /\ pc[p] = "done"
         /\ args[p].action \notin RecognizedActions[op[p]])
          => /\ result[p].status = "returned"
             /\ LET m == result[p].value
                IN  /\ m.spec.action = args[p].action
                    /\ DOMAIN m = {"apiVersion", "kind", "metadata", "spec"}
                    /\ DOMAIN m.metadata = {"name", "namespace"}
                    /\ {"mode", "duration"} \subseteq DOMAIN m.spec
                    /\ DOMAIN m.spec \cap ActionBlocks[op[p]] = {}

\* render_physical_chaos was given the action reboot and no parameters
C25_Witness ==
    \E p \in Procs :
        /\ op[p] = "render_physical_chaos" /\ pc[p] = "done"
        /\ args[p].action = "reboot" /\ args[p].action_params = EmptyDict
        /\ result[p].status = "returned"
        /\ result[p].value.spec.action = "reboot"

\* a '*' that is neither the last character nor the first of a leading "*."
StarInside(pattern) ==
    \E i \in 1..Len(pattern) :
        /\ pattern[i] = "*"
        /\ i # Len(pattern)
        /\ ~(i = 1 /\ pattern[2] = ".")

\* C22: create_dns_error and create_dns_random fail with the
\* wildcard-placement error, and call no collaborator, whenever one of the
\* patterns has a '*' that is neither its final character nor the first
\* character of a leading "*." (labels, duration and mode being valid and
\* no pattern being empty).
C22_WildcardOnlyAtBoundary ==
    \A p \in Procs :
        (/\ op[p] \in {"create_dns_error", "create_dns_random"}
         /\ validate_labels(args[p].target_labels) = OK
         /\ validate_duration(args[p].duration) = OK
         /\ validate_mode(args[p].mode) = OK
         /\ Truthy(args[p].patterns)
         /\ \A i \in DOMAIN args[p].patterns[1] : Len(args[p].patterns[1][i]) > 0
         /\ \E i \in DOMAIN args[p].patterns[1] : StarInside(args[p].patterns[1][i]))
          => /\ result[p] = Raised(ValueError("pattern_wildcard"))
             /\ CallsBy(p) = <<>>

\* the block an operation with two alternative parameters puts in spec, with
\* the parameter behind each member of the block
AlternativeBlocks ==
    [create_io_attr_override |->
         [block |-> "attr", members |-> [perm |-> "perm", size |-> "size"]],
     create_http_replace |->
         [block |-> "replace",
          members |-> [headers |-> "replace_headers", body |-> "replace_body"]],
     create_http_patch |->
         [block |-> "patch",
          members |-> [headers |-> "patch_headers", body |-> "patch_body_value"]]]

\* the members of the block whose parameter the caller passed
SuppliedMembers(o, a) ==
    {k \in DOMAIN AlternativeBlocks[o].members :
        ~IsNone(a[AlternativeBlocks[o].members[k]])}

\* C23: create_io_attr_override, create_http_replace and create_http_patch
\* called with both alternative parameters absent fail before any
\* collaborator call; called with at least one, the manifest they submit
\* has the block (attr, replace, patch) with exactly the supplied members.
C23_BlockHasSuppliedMembers ==
    \A p \in Procs :
        op[p] \in DOMAIN AlternativeBlocks =>
            LET alt == AlternativeBlocks[op[p]]
                supplied == SuppliedMembers(op[p], args[p])
            IN  /\ supplied = {} => /\ result[p].status = "raised"
                                    /\ CallsBy(p) = <<>>
                /\ \A i \in Applies(p) :
                       /\ alt.block \in DOMAIN calls[i].target.spec
                       /\ DOMAIN calls[i].target.spec[alt.block] = supplied

HttpOps == {"create_http_abort", "create_http_delay", "create_http_replace",
            "create_http_patch"}

\* C24: the four create_http_* operations fail before any collaborator call
\* when the port is outside 1..65535, the target is not exactly Request or
\* Response, or a method is given that is not, letter case aside, one of the
\* nine HTTP methods; a method that is accepted is in the submitted manifest
\* in upper case.
C24_PortTargetMethod ==
    \A p \in Procs :
        op[p] \in HttpOps =>
            LET a == args[p]
                refused == \/ a.port \notin 1..65535
                           \/ a.target \notin {"Request", "Response"}
                           \/ /\ ~IsNone(a.method)
                              /\ Upper(a.method[1]) \notin HttpMethods
            IN  /\ refused => /\ result[p].status = "raised"
                              /\ CallsBy(p) = <<>>
                /\ \A i \in Applies(p) :
                       ~IsNone(a.method)
                          => /\ "method" \in DOMAIN calls[i].target.spec
                             /\ calls[i].target.spec.method = Upper(a.method[1])
                             /\ calls[i].target.spec.method \in HttpMethods

StressOps == {"create_stress_cpu", "create_stress_memory", "create_stress_combined"}

\* the stressors of a StressChaos manifest are within the worker and load limits
StressorsInRange(stressors) ==
    /\ "cpu" \in DOMAIN stressors
         => /\ stressors.cpu.workers \in 1..16
            /\ "load" \in DOMAIN stressors.cpu => stressors.cpu.load \in 0..100
    /\ ("memory" \in DOMAIN stressors /\ "workers" \in DOMAIN stressors.memory)
         => stressors.memory.workers \in 1..8

\* C28: every StressChaos manifest that create_stress_cpu,
\* create_stress_memory or create_stress_combined submits has CPU workers in
\* 1..16, a CPU load (when present) in 0..100 and memory workers in 1..8.
C28_StressorsWithinLimits ==
    \A i \in DOMAIN calls :
        (calls[i].call = "apply" /\ op[calls[i].proc] \in StressOps)
          => StressorsInRange(calls[i].target.spec.stressors)

\* C29: every entry list_active_experiments returns has a kind that is one
\* of the nine chaos kinds and stands for a chaos resource of that kind; a
\* kind argument that is not one of the nine yields no entries.
C29_OnlyKnownKindsListed ==
    \A p \in Procs :
        (op[p] = "list_active_experiments" /\ pc[p] = "done")
          => LET value == result[p].value
             IN  /\ \A i \in DOMAIN value :
                       /\ value[i].kind \in Elems(CHAOS_KINDS)
                       /\ Holds(value[i].kind, value[i].experiment_id)
                 /\ (Truthy(args[p].kind) /\ args[p].kind[1] \notin Elems(CHAOS_KINDS))
                       => value = <<>>

\* the position in calls of the delete command with which p's deletion succeeded
DeletedAt(p) == CHOOSE i \in DOMAIN calls :
                    calls[i].proc = p /\ calls[i].call = "delete" /\ calls[i].ok

\* p's delete_experiment(id) returned 'deleted' before q's invocation, for
\* the same id, issued its first command
DeletedBefore(p, q) ==
    /\ p # q
    /\ op[p] = "delete_experiment" /\ pc[p] = "done"
    /\ result[p].status = "returned"
    /\ pc[q] = "done"
    /\ \A i \in DOMAIN calls : calls[i].proc = q => i > DeletedAt(p)

\* C26: after delete_experiment(id, ns) has returned 'deleted', and nothing
\* being created in between, get_experiment_status(id, ns) fails with
\* not-found and list_active_experiments(ns) has no entry whose
\* experiment_id is id.
C26_DeletedIsGone ==
    \A p, q \in Procs :
        DeletedBefore(p, q) =>
            /\ (op[q] = "get_experiment_status"
                    /\ args[q].experiment_id = args[p].experiment_id)
                 => /\ result[q].status = "raised"
                    /\ result[q].err.what = "not_found"
            /\ op[q] = "list_active_experiments"
                 => \A i \in DOMAIN result[q].value :
                        result[q].value[i].experiment_id # args[p].experiment_id

\* no kind but the one p's deletion found has held a resource of that name:
\* none holds one now and none was deleted from another kind
NoOtherHolder(p) ==
    LET id == args[p].experiment_id
        kind == result[p].value.kind
    IN  /\ \A k \in DOMAIN chaos \ {kind} : ~Holds(k, id)
        /\ \A i \in DOMAIN calls :
               (calls[i].call = "delete" /\ calls[i].ok /\ calls[i].target.name = id)
                  => calls[i].target.kind = kind

\* C26, for an id that a single kind held: after delete_experiment(id, ns)
\* has returned 'deleted', get_experiment_status(id, ns) fails with
\* not-found and list_active_experiments(ns) has no entry whose
\* experiment_id is id.
C26_DeletedIsGoneIfOneHolder ==
    \A p, q \in Procs :
        (DeletedBefore(p, q) /\ NoOtherHolder(p)) =>
            /\ (op[q] = "get_experiment_status"
                    /\ args[q].experiment_id = args[p].experiment_id)
                 => /\ result[q].status = "raised"
                    /\ result[q].err.what = "not_found"
            /\ op[q] = "list_active_experiments"
                 => \A i \in DOMAIN result[q].value :
                        result[q].value[i].experiment_id # args[p].experiment_id

\* the status of a deleted experiment was looked up and not found
C26_Witness ==
    \E p, q \in Procs :
        /\ DeletedBefore(p, q)
        /\ op[q] = "get_experiment_status"
        /\ args[q].experiment_id = args[p].experiment_id
        /\ result[q].status = "raised"
        /\ Len(CallsBy(q)) = Len(CHAOS_KINDS)

\* both invocations are deletions of the same experiment
TwoDeletes(p, q) ==
    /\ p # q
    /\ op[p] = "delete_experiment" /\ op[q] = "delete_experiment"
    /\ args[p] = args[q]

Deleted(p) == pc[p] = "done" /\ result[p].status = "returned"

\* q's probe found the resource
Probed(q) == \E i \in DOMAIN calls : calls[i].proc = q /\ calls[i].call = "get" /\ calls[i].ok

\* what C27 says of a deletion p that returned 'deleted' and another one, q
OnlyOneDeletes(p, q) ==
    /\ ~Deleted(q)
    /\ \A k \in DOMAIN chaos : ~Holds(k, args[p].experiment_id)
    /\ pc[q] = "done"
         => /\ result[q].status = "raised"
            /\ IF Probed(q) THEN result[q].err.exc = "KubectlError"
               ELSE result[q].err = ValueError("not_found")

\* C27: of two delete_experiment calls for the same id and namespace that
\* interleave at their commands, at most one returns 'deleted'; the other
\* raises not-found if its probe ran after the deletion, the collaborator's
\* error if its probe had found the resource; the resource is absent
\* afterwards.
C27_OnlyOneDeletes ==
    \A p, q \in Procs : (TwoDeletes(p, q) /\ Deleted(p)) => OnlyOneDeletes(p, q)

\* C27, for an id that a single kind held
C27_OnlyOneDeletesIfOneHolder ==
    \A p, q \in Procs :
        (TwoDeletes(p, q) /\ Deleted(p) /\ NoOtherHolder(p))
          => OnlyOneDeletes(p, q)

\* the resource vanished between q's probe and q's delete command
C27_Witness ==
    \E p, q \in Procs :
        /\ TwoDeletes(p, q) /\ Deleted(p)
        /\ NoOtherHolder(p)
        /\ pc[q] = "done" /\ result[q].err.exc = "KubectlError"
        /\ \E i, j \in DOMAIN calls :
              /\ calls[i].proc = q /\ calls[i].call = "get" /\ calls[i].ok
              /\ calls[j].proc = q /\ calls[j].call = "delete"
              /\ i < DeletedAt(p) /\ DeletedAt(p) < j

\* the commands of validate_environment, check by check
CheckOrder == <<"version", "cluster-info", "get namespace", "get pods", "get crd", "get pods">>

\* a pod whose name has the component's name is Running
HasRunningPod(component) ==
    \E i \in DOMAIN pods : pods[i].phase = "Running" /\ InStr(component, pods[i].name)

\* C30: validate_environment checks kubectl, the cluster connection, the
\* Chaos Mesh installation, the CRDs and the components in this order; when
\* one of the first three checks fails it returns valid = false and runs no
\* later check; it returns valid = true exactly when kubectl is available,
\* the cluster is connected, Chaos Mesh is installed and the components
\* check finds a Running pod for each of chaos-controller-manager and
\* chaos-daemon (the CRDs do not count).
C30_ChecksInOrder ==
    \A p \in Procs :
        op[p] = "validate_environment" =>
            LET mine == CallsBy(p)
            IN  /\ [i \in 1..Len(mine) |-> mine[i].call] = SubSeq(CheckOrder, 1, Len(mine))
                /\ \A i \in 1..4 :
                       (i <= Len(mine) /\ ~mine[i].ok)
                          => /\ Len(mine) = i
                             /\ pc[p] = "done"
                             /\ result[p].status = "returned"
                             /\ result[p].value.valid = FALSE
                /\ pc[p] = "done"
                     => /\ result[p].status = "returned"
                        /\ result[p].value.valid
                             <=> /\ Len(mine) = 6
                                 /\ \A i \in {1, 2, 3, 4, 6} : mine[i].ok
                                 /\ HasRunningPod("chaos-controller-manager")
                                 /\ HasRunningPod("chaos-daemon")

\* the environment is valid though the listing of the CRDs failed
C30_Witness ==
    \E p \in Procs :
        /\ op[p] = "validate_environment" /\ pc[p] = "done"
        /\ result[p].value.valid = TRUE
        /\ ~CallsBy(p)[5].ok
        /\ result[p].value.warnings # <<>>

====
